---- MODULE Spec2Model ----
(***************************************************************************)
(* MeshBot: a relay between a Meshtastic packet-radio mesh and a           *)
(* conversational-AI backend.  The module models four parts of the         *)
(* repository, each with its own specification over its own variables:     *)
(*                                                                         *)
(*   SpecChunk    meshbot/utils/text_utils.py    truncate_by_sentences     *)
(*   SpecFactory  meshbot/utils/ai_client_factory.py  create_ai_client     *)
(*   SpecEngine   meshbot/core/bot.py + message_processor.py               *)
(*   SpecWS       meshbot/api/ws_platform.py     AsyncWebSocketsClient     *)
(*                                                                         *)
(* A specification leaves the variables of the other parts at their        *)
(* initial values.                                                         *)
(***************************************************************************)
EXTENDS Integers, Sequences, FiniteSets, TLC

VARIABLES
    \* ---- truncate_by_sentences -------------------------------------
    text,           \* the argument text: a sequence of characters
    byte_limit,     \* the argument byte_limit
    chunks,         \* the returned list (<<>> before the call)
    chunk_pc,       \* "call" before the call, "done" after it
    \* ---- create_ai_client ------------------------------------------
    f_platform,     \* the argument platform (None, "" or a name)
    f_default,      \* get_platform(): the configured default platform
    f_clients,      \* the keys of get_ai_client_config()
    f_failure,      \* what building the configured backend raises
    f_fallback_ok,  \* whether api.ollama_api can be imported
    f_outcome,      \* NotCalled before the call; then what it returned or raised
    \* ---- the Relay Engine -------------------------------------------
    running,        \* MeshBot.running
    started,        \* initialize() has run: processor built, callbacks subscribed
    loop_running,   \* self._loop.is_running()
    interface_closed,   \* the calls of interface.close() so far
    client_closed,  \* the calls of client.close() that have returned
    shutdown_pc,    \* shutdown(): "idle", "closing" (in client.close()), "done"
    shutdown_calls, \* the calls of shutdown() so far
    rx_pc,          \* the radio thread: "idle", or "schedule" inside _on_receive
    rx_msg,         \* the message _on_receive is handing over: <<>> or <<message>>
    rx_count,       \* packets delivered so far
    scheduled,      \* _queue_message coroutines handed to the loop, not yet run
    queue,          \* self._message_queue
    consumer_pc,    \* _process_message_queue: "none", "start", "get", "chat", "exited"
    processing_lock,    \* self._processing_lock is held
    inflight,       \* the messages whose client.chat call has not returned
    last,           \* the message most recently taken from the queue: <<>> or <<message>>
    events,         \* log of the exchange(s) since the last dequeue: the chat call,
                    \* its result, the sendText calls, the end of the handler
    order,          \* the messages in the order the engine called chat or sendText
                    \* for them, over the whole run (repeats collapsed)
    env,            \* what surrounds the engine in this run: the packets the
                    \* radio may deliver, the results chat may give, whether
                    \* sendText may raise
    \* ---- classification of one packet --------------------------------
    c_packet,       \* the packet _on_receive is called with
    c_result,       \* what analyze_packet returned for it: <<>> or <<message>>
    c_scheduled,    \* _on_receive called _schedule_async_processing for it
    c_pc,           \* "call" before the callback runs, "done" after it
    \* ---- AsyncWebSocketsClient ---------------------------------------
    is_connected,   \* self.is_connected
    is_running,     \* self.is_running
    websocket,      \* self.websocket: 0 for None, else the connection's id
    reconnect_attempts, \* self.reconnect_attempts
    lock_holder,    \* the task that holds self._lock, or None
    lock_waiters,   \* the tasks waiting for self._lock, first come first
    pending_responses,  \* self._pending_responses: request id -> the chat call
                    \* whose (response_event, response_data) it holds
    event,          \* per chat call: its response_event and response_data[0]
    task,           \* per task: label, return stack, locals, result
    conn_open,      \* the connections that are open (not websocket.closed)
    connects,       \* websockets.connect calls answered so far
    unanswered,     \* <<connection, request id>>: requests the server holds
    next_rid,       \* the next uuid4: request ids are 1, 2, ...
    net,            \* the network in this run: how many websockets.connect
                    \* calls it answers and which of them may succeed
    \* ---- the conversation history of one HTTP backend ----------------
    h_backend,      \* which client it is: "ollama" or "gemini"
    conversation_history,   \* self.conversation_history
    h_pc,           \* chat(): "idle", or "post" while the request is out
    h_message,      \* the message the request in flight was built from
    h_result,       \* what the last chat call returned
    h_exchanges,    \* every entry appended so far, in order, never cut
    \* ---- _handle_message on one frame ---------------------------------
    d_message,      \* the argument message: the text of the frame
    d_pending,      \* the keys of self._pending_responses at the call
    d_handlers,     \* self.message_handlers: what each handler does when called
    d_out,          \* what the call did: events set, slots filled, handler
                    \* calls, the exception that left it
    d_pc            \* "call" before the call, "done" after it

chunkVars == <<text, byte_limit, chunks, chunk_pc>>
factoryVars == <<f_platform, f_default, f_clients, f_failure, f_fallback_ok, f_outcome>>

engineVars ==
    <<running, started, loop_running, interface_closed, client_closed, shutdown_pc,
      shutdown_calls, rx_pc, rx_msg, rx_count, scheduled, queue, consumer_pc,
      processing_lock, inflight, last, events, order, env>>

wsVars ==
    <<is_connected, is_running, websocket, reconnect_attempts, lock_holder,
      lock_waiters, pending_responses, event, task, conn_open, connects,
      unanswered, next_rid, net>>

classifyVars == <<c_packet, c_result, c_scheduled, c_pc>>
historyVars ==
    <<h_backend, conversation_history, h_pc, h_message, h_result, h_exchanges>>
dispatchVars == <<d_message, d_pending, d_handlers, d_out, d_pc>>

\* what each part leaves unchanged
notChunk == <<factoryVars, engineVars, wsVars, classifyVars, historyVars, dispatchVars>>
notFactory == <<chunkVars, engineVars, wsVars, classifyVars, historyVars, dispatchVars>>
notEngine == <<chunkVars, factoryVars, wsVars, classifyVars, historyVars, dispatchVars>>
notWS == <<chunkVars, factoryVars, engineVars, classifyVars, historyVars, dispatchVars>>
notClassify == <<chunkVars, factoryVars, engineVars, wsVars, historyVars, dispatchVars>>
notHistory == <<chunkVars, factoryVars, engineVars, wsVars, classifyVars, dispatchVars>>
notDispatch == <<chunkVars, factoryVars, engineVars, wsVars, classifyVars, historyVars>>
vars ==
    <<chunkVars, factoryVars, engineVars, wsVars, classifyVars, historyVars,
      dispatchVars>>

None == "None"

(***************************************************************************)
(* Part 1.  truncate_by_sentences                                          *)
(*                                                                         *)
(* A Python str is a sequence of characters; a character is one of the     *)
(* names below.  Byte lengths are those of the UTF-8 encoding.             *)
(*    "a"  a Latin letter (1 byte)       "W"  a CJK ideograph (3 bytes)    *)
(*    "."  "!"  "?"  ASCII terminals     "J"  the ideographic stop U+3002  *)
(*    "E"  U+FF01   "Q"  U+FF1F   (fullwidth ! and ?)                      *)
(*    ","  ";"  ASCII                    "C"  U+FF0C   "S"  U+FF1B         *)
(*    " "  space                         "n"  newline                      *)
(*    "M"  an emoji outside the BMP (4 bytes)                              *)
(***************************************************************************)
Chars == {"a", "W", "M", ".", "!", "?", "J", "E", "Q", ",", ";", "C", "S", " ", "n"}

\* len(ch.encode('utf-8'))
ByteLen(ch) ==
    IF ch \in {"W", "J", "E", "Q", "C", "S"} THEN 3 ELSE IF ch = "M" THEN 4 ELSE 1

\* byte_len(s): the UTF-8 length of a string
RECURSIVE byte_len(_)
byte_len(s) == IF s = <<>> THEN 0 ELSE ByteLen(Head(s)) + byte_len(Tail(s))

\* what str.strip() and the regex class \s take as whitespace
IsSpace(ch) == ch \in {" ", "n"}

\* the characters matched by sentence_endings = r'[。！？!?\.]|\n+'
SentenceEndings == {"J", "E", "Q", "!", "?", ".", "n"}

\* the characters matched by r'[，,；;\s]+'
SubSeparators == {"C", ",", "S", ";", " ", "n"}

RECURSIVE LStrip(_)
LStrip(s) == IF s # <<>> /\ IsSpace(Head(s)) THEN LStrip(Tail(s)) ELSE s

RECURSIVE RStrip(_)
RStrip(s) ==
    IF s # <<>> /\ IsSpace(s[Len(s)]) THEN RStrip(SubSeq(s, 1, Len(s) - 1)) ELSE s

\* str.strip()
strip(s) == RStrip(LStrip(s))

\* re.split on a character class: the fragments between separator
\* characters.  A run of separators (\n+, [...]+) is one separator to
\* the regex and yields empty fragments here; both callers discard
\* empty fragments, so the lists they keep are the same.
RECURSIVE SplitAcc(_, _, _, _)
SplitAcc(s, seps, cur, acc) ==
    IF s = <<>> THEN Append(acc, cur)
    ELSE IF Head(s) \in seps
         THEN SplitAcc(Tail(s), seps, <<>>, Append(acc, cur))
         ELSE SplitAcc(Tail(s), seps, Append(cur, Head(s)), acc)

re_split(s, seps) == SplitAcc(s, seps, <<>>, <<>>)

\* [s.strip() for s in fragments if s.strip()]
RECURSIVE StripNonEmpty(_)
StripNonEmpty(frags) ==
    IF frags = <<>> THEN <<>>
    ELSE IF strip(Head(frags)) = <<>> THEN StripNonEmpty(Tail(frags))
         ELSE <<strip(Head(frags))>> \o StripNonEmpty(Tail(frags))

\* sentences, as computed before the main loop
Sentences(t) == StripNonEmpty(re_split(strip(t), SentenceEndings))

\* One iteration of the per-character fallback `for ch in sub`.
\* st = [cur |-> temp, res |-> result]
char_step_dropping(st, ch, limit) ==
    IF byte_len(st.cur) + ByteLen(ch) <= limit
    THEN [st EXCEPT !.cur = Append(st.cur, ch)]
    ELSE [cur |-> <<>>,
          res |-> IF st.cur # <<>> THEN Append(st.res, st.cur \o <<"J">>) ELSE st.res]

char_step(st, ch, limit) ==
    IF byte_len(st.cur) + ByteLen(ch) <= limit
    THEN [st EXCEPT !.cur = Append(st.cur, ch)]
    ELSE [cur |-> <<ch>>,
          res |-> IF st.cur # <<>> THEN Append(st.res, st.cur \o <<"J">>) ELSE st.res]

RECURSIVE char_loop(_, _, _)
char_loop(st, sub, limit) ==
    IF sub = <<>> THEN st
    ELSE char_loop(char_step(st, Head(sub), limit), Tail(sub), limit)

\* One iteration of `for sub in sub_sentences` (sub already stripped and
\* non-empty).  st = [cur |-> current_chunk, res |-> result]
sub_step(st, sub, limit) ==
    IF st.cur # <<>> /\ byte_len(st.cur \o <<"C">> \o sub) <= limit
    THEN [st EXCEPT !.cur = st.cur \o <<"C">> \o sub]
    ELSE IF st.cur = <<>> /\ byte_len(sub) <= limit
    THEN [st EXCEPT !.cur = sub]
    ELSE LET res1 == IF st.cur # <<>> THEN Append(st.res, st.cur \o <<"J">>)
                     ELSE st.res
         IN  IF byte_len(sub) > limit
             THEN char_loop([cur |-> <<>>, res |-> res1], sub, limit)
             ELSE [cur |-> sub, res |-> res1]

RECURSIVE sub_loop(_, _, _)
sub_loop(st, subs, limit) ==
    IF subs = <<>> THEN st
    ELSE sub_loop(sub_step(st, Head(subs), limit), Tail(subs), limit)

\* The branch taken for a sentence longer than byte_limit.
long_sentence(st, sentence, limit) ==
    LET st0 == IF st.cur # <<>>
               THEN [cur |-> <<>>, res |-> Append(st.res, st.cur)]
               ELSE st
    IN  sub_loop(st0, StripNonEmpty(re_split(sentence, SubSeparators)), limit)

\* The branch taken for a sentence that fits in byte_limit.
normal_sentence(st, sentence, limit) ==
    LET candidate == IF st.cur # <<>> THEN st.cur \o <<"J">> \o sentence
                     ELSE sentence
    IN  IF byte_len(candidate) <= limit
        THEN [st EXCEPT !.cur = candidate]
        ELSE [cur |-> sentence,
              res |-> IF st.cur # <<>> THEN Append(st.res, st.cur \o <<"J">>)
                      ELSE st.res]

\* One iteration of `for sentence in sentences`.
sentence_step(st, sentence, limit) ==
    IF byte_len(sentence) > limit
    THEN long_sentence(st, sentence, limit)
    ELSE normal_sentence(st, sentence, limit)

RECURSIVE sentence_loop(_, _, _)
sentence_loop(st, sents, limit) ==
    IF sents = <<>> THEN st
    ELSE sentence_loop(sentence_step(st, Head(sents), limit), Tail(sents), limit)

\* The code after the loop: terminate and append the last chunk.
final_chunk(st) ==
    IF st.cur # <<>>
    THEN Append(st.res,
                IF st.cur[Len(st.cur)] = "J" THEN st.cur ELSE st.cur \o <<"J">>)
    ELSE st.res

truncate_by_sentences(t, limit) ==
    IF t = <<>> \/ limit <= 0 THEN <<>>
    ELSE LET sents == Sentences(t)
         IN  IF sents = <<>> THEN <<>>
             ELSE final_chunk(sentence_loop([cur |-> <<>>, res |-> <<>>],
                                            sents, limit))

\* ---- the inputs the chunker is checked on ---------------------------
MaxTextLen == 4
MaxByteLimit == 6

\* characters the input texts are drawn from: one 1-byte and one 3-byte
\* content character, an ASCII and a CJK terminal, a comma, a space and
\* a newline
InputChars == {"a", "W", ".", "J", ",", " ", "n"}

RECURSIVE SeqsUpTo(_, _)
SeqsUpTo(S, n) ==
    IF n = 0 THEN {<<>>}
    ELSE LET shorter == SeqsUpTo(S, n - 1)
         IN  shorter \cup {Append(s, c) : s \in {x \in shorter : Len(x) = n - 1}, c \in S}

ChunkInputs ==
    /\ text \in SeqsUpTo(InputChars, MaxTextLen)
    /\ byte_limit \in 0..MaxByteLimit
    /\ chunks = <<>>
    /\ chunk_pc = "call"

\* the chunker's variables in the specifications of the other parts
ChunkIdle ==
    /\ text = <<>>
    /\ byte_limit = 0
    /\ chunks = <<>>
    /\ chunk_pc = "call"

\* the call truncate_by_sentences(text, byte_limit)
Truncate ==
    /\ chunk_pc = "call"
    /\ chunks' = truncate_by_sentences(text, byte_limit)
    /\ chunk_pc' = "done"
    /\ UNCHANGED <<text, byte_limit>>
    /\ UNCHANGED notChunk


(***************************************************************************)
(* Part 2.  create_ai_client                                               *)
(*                                                                         *)
(* The environment of one call: the platform argument, the configured      *)
(* default platform, the platforms that have an entry in the client        *)
(* configuration, what building the configured backend raises              *)
(* ("ImportError": import_module finds no module; "AttributeError": the    *)
(* module has no such class; "KeyError": the entry lacks a key;            *)
(* "TypeError": the constructor rejects the configured kwargs), and        *)
(* whether the built-in Ollama module can be imported.                     *)
(***************************************************************************)
\* f_outcome before the call
NotCalled == [ret |-> None, exc |-> "pending"]

PlatformNames == {"ollama", "websockets", "nosuch"}
BuildFailures == {"none", "ImportError", "AttributeError", "KeyError", "TypeError"}

\* the exception classes of the `except` clause around the construction
CaughtOnBuild == {"ImportError", "AttributeError", "KeyError"}

\* the fallback: from api.ollama_api import AsyncOllamaChatClient; return
\* AsyncOllamaChatClient(...).  wrapped: inside the inner try, whose
\* ImportError becomes RuntimeError.
ollama_fallback(fallback_ok, wrapped) ==
    IF fallback_ok THEN [ret |-> "AsyncOllamaChatClient", exc |-> "none"]
    ELSE [ret |-> None, exc |-> IF wrapped THEN "RuntimeError" ELSE "ImportError"]

\* config = ai_client_config.get(platform) or ai_client_config.get(default_platform)
config_lookup(platform, default_platform, clients) ==
    LET p == IF platform = None THEN default_platform ELSE platform
    IN  IF p \in clients THEN p
        ELSE IF default_platform \in clients THEN default_platform
        ELSE None

create_ai_client(platform, default_platform, clients, failure, fallback_ok) ==
    LET config == config_lookup(platform, default_platform, clients)
    IN  IF config = None THEN ollama_fallback(fallback_ok, FALSE)
        ELSE IF failure = "none" THEN [ret |-> config, exc |-> "none"]
        ELSE IF failure \in CaughtOnBuild THEN ollama_fallback(fallback_ok, TRUE)
        ELSE [ret |-> None, exc |-> failure]

FactoryInputs ==
    /\ f_platform \in PlatformNames \cup {None, ""}
    /\ f_default \in PlatformNames
    /\ f_clients \in SUBSET {"ollama", "websockets"}
    /\ f_failure \in BuildFailures
    /\ f_fallback_ok \in BOOLEAN
    /\ f_outcome = NotCalled

FactoryIdle ==
    /\ f_platform = None
    /\ f_default = "ollama"
    /\ f_clients = {}
    /\ f_failure = "none"
    /\ f_fallback_ok = TRUE
    /\ f_outcome = NotCalled

\* the call create_ai_client(platform)
CreateClient ==
    /\ f_outcome = NotCalled
    /\ f_outcome' = create_ai_client(f_platform, f_default, f_clients,
                                     f_failure, f_fallback_ok)
    /\ UNCHANGED <<f_platform, f_default, f_clients, f_failure, f_fallback_ok>>
    /\ UNCHANGED notFactory

(***************************************************************************)
(* Part 3.  The Relay Engine: MeshBot (core/bot.py) and MessageProcessor   *)
(* (core/message_processor.py)                                             *)
(*                                                                         *)
(* Two threads run the engine.  The radio driver's thread calls            *)
(* _on_receive; everything else runs on the asyncio event loop, where a    *)
(* coroutine runs without interruption from one suspension point (an       *)
(* await that really waits) to the next.  An action of the event loop is   *)
(* one such run.                                                           *)
(***************************************************************************)

\* A Python value that is an int or a str: ids arrive as ints, the table
\* of broadcast addresses holds strs, and 4294967295 == "4294967295" is
\* False in Python.  v is the decimal numeral.
PyInt(v) == [ty |-> "int", v |-> v]
PyStr(v) == [ty |-> "str", v |-> v]

NodeId == PyInt("101")            \* getMyNodeInfo()['num'] of this node
PeerId == PyInt("202")            \* another node of the mesh
BROADCAST_NUM == PyInt("4294967295")   \* 0xffffffff, as the driver delivers it
NEARBY_NUM == PyInt("4294967280")      \* 0xfffffff0, likewise

\* ---- texts ------------------------------------------------------------
\* A message text is the set of the pieces it is made of; a piece is an
\* atom below.  `token in text` is true when some piece of the text has
\* the token as a substring.  The non-ASCII tokens of the source are
\* written in pinyin.
bot_mentions == {"@bot", "@jiqiren", "@ai", "@zhushou"}
broadcast_keywords == {"@all", "@dajia", "@suoyouren", "dajia", "quanti"}
question_indicators ==
    {"ma?", "?", "zenmeban", "ruhe", "weishenme", "shenme", "zenyang",
     "nengbuneng", "shifoukeyi"}
response_keywords == {"bangzhu", "qiuzhu", "wenti", "qingjiao", "jianyi", "yijian"}

\* the pairs <<token, atom>> with token a proper substring of atom
ProperSubstringPairs == {<<"dajia", "@dajia">>, <<"shenme", "weishenme">>}

\* token in text
Contains(txt, token) ==
    \E atom \in txt : token = atom \/ <<token, atom>> \in ProperSubstringPairs

\* str.lower() of one atom, and of a text
LowerAtom(atom) ==
    CASE atom = "@BOT" -> "@bot"
      [] atom = "@ALL" -> "@all"
      [] atom = "@Peer" -> "@peer"
      [] OTHER -> atom

lower(txt) == {LowerAtom(atom) : atom \in txt}

\* f"@{sender_name}"
AtName(sender_name) == IF sender_name = "Peer" THEN "@Peer" ELSE "@"

\* MessageProcessor._contains_mention
_contains_mention(txt, sender_name) ==
    \/ \E mention \in bot_mentions \cup (IF sender_name # "" THEN {AtName(sender_name)} ELSE {}) :
           Contains(lower(txt), LowerAtom(mention))
    \/ \E keyword \in broadcast_keywords : Contains(txt, keyword)

\* MessageProcessor._is_broadcast_message
broadcast_addresses ==
    {PyStr("4294967295"), PyStr("4294967280"), PyStr("65535"), PyStr("65534")}

_is_broadcast_message_by_address_only(to_id, node_id) ==
    to_id \in broadcast_addresses \/ to_id = PyStr("0") \/ to_id = PyStr("65535")

_is_broadcast_message(to_id, node_id) ==
    IF to_id \in broadcast_addresses \/ to_id = PyStr("0") \/ to_id = PyStr("65535")
    THEN TRUE
    ELSE IF to_id # node_id THEN TRUE
    ELSE FALSE

\* self.broadcast_enabled, set in __init__ and changed by no caller
broadcast_enabled == TRUE

\* MessageProcessor._should_respond_to_broadcast
_should_respond_to_broadcast_no_keywords(txt, long_name, is_mention) ==
    is_mention \/ \E indicator \in question_indicators : Contains(txt, indicator)

_should_respond_to_broadcast(txt, long_name, is_mention) ==
    IF is_mention THEN TRUE
    ELSE IF \E indicator \in question_indicators : Contains(txt, indicator) THEN TRUE
    ELSE IF broadcast_enabled /\ \E keyword \in response_keywords : Contains(txt, keyword)
    THEN TRUE
    ELSE FALSE

\* MessageProcessor._get_sender_name: the longName the node table holds
_get_sender_name(from_id) == IF from_id = PeerId THEN "Peer" ELSE ""

\* MessageProcessor._process_text_message.  The result is the tuple
\* (from_id, to_id, long_name, text, is_broadcast, is_mention) as a record
\* in a one-element sequence, or <<>> for None.  packet.text holds the
\* pieces of the text, which is what strip() leaves of it: the whitespace
\* around them (packet.pad, where a packet has it) is gone, and {} is the
\* empty string.
_process_text_message_keeping_empty(packet, node_id) ==
    <<[from_id |-> packet.from, to_id |-> packet.to,
       long_name |-> _get_sender_name(packet.from), text |-> packet.text,
       is_broadcast |-> _is_broadcast_message(packet.to, node_id),
       is_mention |-> _contains_mention(packet.text, _get_sender_name(packet.from))]>>

_process_text_message(packet, node_id) ==
    IF packet.text = {} THEN <<>>
    ELSE LET long_name == _get_sender_name(packet.from)
         IN  <<[from_id |-> packet.from,
              to_id |-> packet.to,
              long_name |-> long_name,
              text |-> packet.text,
              is_broadcast |-> _is_broadcast_message(packet.to, node_id),
              is_mention |-> _contains_mention(packet.text, long_name)]>>

\* MessageProcessor._extract_position_data: <<>> for None
_extract_position_data(position) ==
    IF position = <<>> THEN <<>>
    ELSE IF position[1].latitude = None \/ position[1].longitude = None THEN <<>>
    ELSE position

\* MessageProcessor._process_position_message: whether the position is
\* logged; it returns nothing
_process_position_message(packet) ==
    _extract_position_data(packet.position) # <<>>

\* MessageProcessor.analyze_packet
analyze_packet(packet, node_id) ==
    IF ~packet.decoded THEN <<>>
    ELSE IF packet.portnum = "TEXT_MESSAGE_APP" THEN _process_text_message(packet, node_id)
    ELSE IF packet.portnum = "POSITION_APP"
         THEN LET logged == _process_position_message(packet) IN <<>>
    ELSE <<>>

\* ---- handle_incoming_message, from the return of client.chat ----------
\* The texts handed to interface.sendText are records [kind, body]:
\*   kind "reply"      body the characters of the reply or chunk
\*   kind "failed"     f"❌ 处理失败: {error_msg}", body <<error_msg>>
\*   kind "exception"  "❌ 处理异常，请稍后重试", body <<>>

\* self.max_response_length (200 in the default configuration), kept small
\* here so that a reply of a few characters is cut and split
max_response_length == 6

\* "💬 " + response: "M" is the 4-byte emoji
BroadcastPrefix == <<"M", " ">>

\* response[:n] on a str
Slice(s, n) == SubSeq(s, 1, IF Len(s) < n THEN Len(s) ELSE n)

\* the texts the success branch sends, in order
reply_texts(response, is_broadcast) ==
    LET cut == Slice(response, max_response_length)
        resp == IF is_broadcast THEN BroadcastPrefix \o cut ELSE cut
    IN  IF byte_len(resp) > max_response_length
        THEN truncate_by_sentences(resp, max_response_length)
        ELSE <<resp>>

\* The sendText calls of the try block: `texts` in order, the call number
\* fail_at raising (0: none raises).  Each call is logged with ok = whether
\* it returned.
RECURSIVE try_sends(_, _, _, _, _)
try_sends(id, dest, texts, fail_at, k) ==
    IF texts = <<>> \/ (fail_at # 0 /\ k > fail_at) THEN <<>>
    ELSE <<[ev |-> "send", msg |-> id, dest |-> dest, kind |-> Head(texts).kind,
            body |-> Head(texts).body, ok |-> (k # fail_at)]>>
         \o try_sends(id, dest, Tail(texts), fail_at, k + 1)

\* the destination argument of sendText: none for a broadcast request
send_dest_broadcasting(m) == None

send_dest(m) == IF m.is_broadcast THEN None ELSE m.from_id.v

\* what the try block does once client.chat has returned `result` or
\* raised: the texts it sends, and whether it raises before sending
try_block_last_chunk_first(m, result) ==
    CASE result.kind = "success" ->
            [texts |-> [i \in 1..Len(reply_texts(result.body, m.is_broadcast)) |->
                           [kind |-> "reply",
                            body |-> reply_texts(result.body, m.is_broadcast)[
                                        Len(reply_texts(result.body, m.is_broadcast)) + 1 - i]]],
             raises |-> FALSE]
      [] result.kind = "failure" ->
            [texts |-> <<[kind |-> "failed", body |-> result.body]>>, raises |-> FALSE]
      [] OTHER -> [texts |-> <<>>, raises |-> TRUE]

try_block(m, result) ==
    CASE result.kind = "success" ->
            [texts |-> [i \in 1..Len(reply_texts(result.body, m.is_broadcast)) |->
                           [kind |-> "reply",
                            body |-> reply_texts(result.body, m.is_broadcast)[i]]],
             raises |-> FALSE]
      [] result.kind = "failure" ->
            [texts |-> <<[kind |-> "failed", body |-> result.body]>>, raises |-> FALSE]
      [] OTHER -> [texts |-> <<>>, raises |-> TRUE]

\* the second half of handle_incoming_message: the log of its sendText
\* calls and whether an exception leaves the handler.
\* fail_at: which sendText of the try block raises (0: none);
\* notice_fails: whether the sendText of the except block raises.
handle_result_without_notice(id, m, result, fail_at, notice_fails) ==
    LET tb == try_block(m, result)
        sent == try_sends(id, send_dest(m), tb.texts, fail_at, 1)
    IN  [log |-> sent, raised |-> FALSE]

handle_result(id, m, result, fail_at, notice_fails) ==
    LET tb == try_block(m, result)
        sent == try_sends(id, send_dest(m), tb.texts, fail_at, 1)
        caught == tb.raises \/ fail_at # 0
        notice == [ev |-> "send", msg |-> id, dest |-> send_dest(m),
                   kind |-> "exception", body |-> <<>>, ok |-> ~notice_fails]
    IN  [log |-> IF caught THEN Append(sent, notice) ELSE sent,
         raised |-> caught /\ notice_fails]

\* ---- the engine's state and steps -------------------------------------

\* an entry of the log `events`
Ev(ev, id, dest, kind, body, ok) ==
    [ev |-> ev, msg |-> id, dest |-> dest, kind |-> kind, body |-> body, ok |-> ok]

\* `order` once the engine has called chat or sendText for message id
noted(ord, id) ==
    IF ord # <<>> /\ ord[Len(ord)] = id THEN ord ELSE Append(ord, id)

\* `while self.running:` of _process_message_queue: wait for the next item
\* or leave the loop
loop_check_forever(running_) == "get"

loop_check(running_) == IF running_ THEN "get" ELSE "exited"

\* _process_message_queue once handle_incoming_message has reached
\* `await client.chat(...)`: the consumer stays inside `async with
\* self._processing_lock`, awaiting the handler.
dispatch_spawned == [pc |-> "get", lock |-> FALSE]

dispatch == [pc |-> "chat", lock |-> TRUE]

\* _process_message_queue after the handler has returned (task_done) or
\* raised (`except Exception`: logged): back to the loop condition.
after_handler_dying(raised, running_) ==
    IF raised THEN "exited" ELSE loop_check(running_)

after_handler(raised, running_) == loop_check(running_)

\* asyncio.Queue.put on the unbounded queue: append at the tail
queue_put_front(q, item) == <<item>> \o q

queue_put(q, item) == Append(q, item)

\* asyncio.Queue.get on a queue that is not empty: the head is returned and
\* removed
queue_get_peeking(q) == [item |-> Head(q), rest |-> q]

queue_get(q) == [item |-> Head(q), rest |-> Tail(q)]

\* the results of client.chat the engine is run against
ResponseSamples == {<<"a">>, <<"W", "W", ".", "a">>}
ErrorSamples == {"timeout", "http500"}
ChatResults ==
    {[kind |-> "success", body |-> r] : r \in ResponseSamples}
    \cup {[kind |-> "failure", body |-> <<e>>] : e \in ErrorSamples}
    \cup {[kind |-> "raise", body |-> <<>>], [kind |-> "malformed", body |-> <<>>]}

\* the packets the radio delivers to the engine
EngineTexts == {{"hi"}, {"hi", "?"}, {"@bot"}, {"bangzhu"}}
TextPacket(from, to, txt) ==
    [decoded |-> TRUE, from |-> from, to |-> to, portnum |-> "TEXT_MESSAGE_APP",
     text |-> txt]
EnginePackets ==
    {TextPacket(PeerId, BROADCAST_NUM, txt) : txt \in EngineTexts}
    \cup {TextPacket(PeerId, NodeId, {"hi"}),
          TextPacket(NodeId, BROADCAST_NUM, {"hi", "?"})}

MaxPackets == 2

\* the engine against every packet and every result above, with a radio
\* whose sendText may raise
FullEnv ==
    [packets |-> EnginePackets, results |-> ChatResults, send_raises |-> TRUE]

\* the engine against a direct message and a broadcast that is not to be
\* answered, a backend that answers or raises, and the same radio
SmallEnv ==
    [packets |-> {TextPacket(PeerId, NodeId, {"hi"}),
                  TextPacket(PeerId, BROADCAST_NUM, {"hi"})},
     results |-> {[kind |-> "success", body |-> <<"a">>],
                  [kind |-> "raise", body |-> <<>>]},
     send_raises |-> TRUE]

\* MeshBot.__init__, inside asyncio.run(main()), surrounded by e
EngineStart(e) ==
    /\ env = e
    /\ running = FALSE
    /\ started = FALSE
    /\ loop_running = TRUE
    /\ interface_closed = 0
    /\ client_closed = 0
    /\ shutdown_pc = "idle"
    /\ shutdown_calls = 0
    /\ rx_pc = "idle"
    /\ rx_msg = <<>>
    /\ rx_count = 0
    /\ scheduled = <<>>
    /\ queue = <<>>
    /\ consumer_pc = "none"
    /\ processing_lock = FALSE
    /\ inflight = {}
    /\ last = <<>>
    /\ events = <<>>
    /\ order = <<>>

EngineIdle == EngineStart(FullEnv)

\* MeshBot.run up to its `while self.running` loop: running = True, then
\* initialize() builds the MessageProcessor, subscribes _on_receive and
\* creates the consumer task.
Run ==
    /\ ~started /\ shutdown_pc = "idle"
    /\ running' = TRUE
    /\ started' = TRUE
    /\ consumer_pc' = "start"
    /\ UNCHANGED <<loop_running, interface_closed, client_closed, shutdown_pc, rx_pc,
                   rx_msg, rx_count, scheduled, queue, processing_lock, inflight,
                   last, events, order>>
    /\ UNCHANGED <<env, shutdown_calls, notEngine>>

\* the first step of the consumer task: the loop condition
ConsumerStart ==
    /\ consumer_pc = "start" /\ loop_running
    /\ consumer_pc' = loop_check(running)
    /\ UNCHANGED <<running, started, loop_running, interface_closed, client_closed,
                   shutdown_pc, rx_pc, rx_msg, rx_count, scheduled, queue,
                   processing_lock, inflight, last, events, order>>
    /\ UNCHANGED <<env, shutdown_calls, notEngine>>

\* `if not self.running or packet.get('from') == self._node_id: return`
early_return_no_echo_test(running_, packet, node_id) == ~running_

early_return(running_, packet, node_id) == ~running_ \/ packet.from = node_id

\* MeshBot._on_receive on the radio thread, up to the call of
\* _schedule_async_processing
OnReceive ==
    /\ started /\ rx_pc = "idle" /\ rx_count < MaxPackets
    /\ \E packet \in env.packets :
         LET message_data == analyze_packet(packet, NodeId)
         IN  /\ rx_count' = rx_count + 1
             /\ IF early_return(running, packet, NodeId) \/ message_data = <<>>
                THEN UNCHANGED <<rx_pc, rx_msg>>
                ELSE /\ rx_pc' = "schedule"
                     /\ rx_msg' = <<[id |-> rx_count + 1, m |-> message_data[1]]>>
    /\ UNCHANGED <<running, started, loop_running, interface_closed, client_closed,
                   shutdown_pc, scheduled, queue, consumer_pc, processing_lock,
                   inflight, last, events, order>>
    /\ UNCHANGED <<env, shutdown_calls, notEngine>>

\* MeshBot._schedule_async_processing on the radio thread
ScheduleAsyncProcessing ==
    /\ rx_pc = "schedule"
    /\ rx_pc' = "idle"
    /\ rx_msg' = <<>>
    /\ scheduled' = IF loop_running THEN Append(scheduled, rx_msg[1]) ELSE scheduled
    /\ UNCHANGED <<running, started, loop_running, interface_closed, client_closed,
                   shutdown_pc, rx_count, queue, consumer_pc, processing_lock, inflight,
                   last, events, order>>
    /\ UNCHANGED <<env, shutdown_calls, notEngine>>

\* MeshBot._queue_message: the event loop runs the coroutines handed to
\* it in the order they were handed over
QueueMessage ==
    /\ scheduled # <<>> /\ loop_running
    /\ scheduled' = Tail(scheduled)
    /\ queue' = queue_put(queue, Head(scheduled))
    /\ UNCHANGED <<running, started, loop_running, interface_closed, client_closed,
                   shutdown_pc, rx_pc, rx_msg, rx_count, consumer_pc, processing_lock,
                   inflight, last, events, order>>
    /\ UNCHANGED <<env, shutdown_calls, notEngine>>

\* _process_message_queue from the return of queue.get() to the next
\* suspension: the lock, then handle_incoming_message up to
\* `await client.chat`, or through its early return for a broadcast that
\* is not to be answered.
ConsumerDequeue ==
    /\ consumer_pc = "get" /\ queue # <<>> /\ loop_running /\ ~processing_lock
    /\ LET item == queue_get(queue).item
           m == item.m
       IN  /\ queue' = queue_get(queue).rest
           /\ last' = <<item>>
           /\ IF m.is_broadcast
                 /\ ~_should_respond_to_broadcast(m.text, m.long_name, m.is_mention)
              THEN /\ events' = <<Ev("done", item.id, None, "skipped", <<>>, TRUE)>>
                   /\ consumer_pc' = after_handler(FALSE, running)
                   /\ UNCHANGED <<inflight, processing_lock, order>>
              ELSE /\ events' = <<Ev("chat", item.id, None, "", <<>>, TRUE)>>
                   /\ order' = noted(order, item.id)
                   /\ inflight' = inflight \cup {item}
                   /\ consumer_pc' = dispatch.pc
                   /\ processing_lock' = dispatch.lock
    /\ UNCHANGED <<running, started, loop_running, interface_closed, client_closed,
                   shutdown_pc, rx_pc, rx_msg, rx_count, scheduled>>
    /\ UNCHANGED <<env, shutdown_calls, notEngine>>

\* asyncio.wait_for(queue.get(), timeout) times out: `continue`
ConsumerTimeout ==
    /\ consumer_pc = "get" /\ queue = <<>> /\ loop_running
    /\ consumer_pc' = loop_check(running)
    /\ UNCHANGED <<running, started, loop_running, interface_closed, client_closed,
                   shutdown_pc, rx_pc, rx_msg, rx_count, scheduled, queue,
                   processing_lock, inflight, last, events, order>>
    /\ UNCHANGED <<env, shutdown_calls, notEngine>>

\* client.chat returns `result` (or raises) for an exchange in flight:
\* the rest of handle_incoming_message, then _process_message_queue up to
\* its next wait.  The radio decides which sendText calls raise.
ChatReturn ==
    /\ loop_running
    /\ \E item \in inflight, result \in env.results, fail_at \in 0..3,
          notice_fails \in BOOLEAN :
         LET tb == try_block(item.m, result)
             h == handle_result(item.id, item.m, result, fail_at, notice_fails)
         IN  /\ fail_at <= Len(tb.texts)
             /\ (fail_at # 0 \/ notice_fails) => env.send_raises
             /\ notice_fails => (tb.raises \/ fail_at # 0)
             /\ events' = events
                    \o <<Ev("result", item.id, None, result.kind, result.body, TRUE)>>
                    \o h.log
                    \o <<Ev("done", item.id, None, "handled", <<>>, ~h.raised)>>
             /\ order' = IF h.log # <<>> THEN noted(order, item.id) ELSE order
             /\ inflight' = inflight \ {item}
             /\ IF consumer_pc = "chat"
                THEN /\ consumer_pc' = after_handler(h.raised, running)
                     /\ processing_lock' = FALSE
                ELSE UNCHANGED <<consumer_pc, processing_lock>>
    /\ UNCHANGED <<running, started, loop_running, interface_closed, client_closed,
                   shutdown_pc, rx_pc, rx_msg, rx_count, scheduled, queue, last>>
    /\ UNCHANGED <<env, shutdown_calls, notEngine>>

\* the calls of shutdown() one run makes at most: from the finally block of
\* run(), from the finally block of the program entry, from signal handlers
MaxShutdownCalls == 3

\* shutdown: `if not self.running: return`
shutdown_never_returns_early(flag) == FALSE

shutdown_returns_early(flag) == ~flag

\* shutdown: the value it gives self.running
shutdown_flag_kept(flag) == flag

shutdown_flag(flag) == FALSE

\* MeshBot.shutdown up to `await self.client.close()`
ShutdownBegin ==
    /\ started /\ loop_running
    /\ shutdown_calls < MaxShutdownCalls
    /\ ~shutdown_returns_early(running)
    /\ shutdown_calls' = shutdown_calls + 1
    /\ running' = shutdown_flag(running)
    /\ interface_closed' = interface_closed + 1
    /\ shutdown_pc' = "closing"
    /\ events' = Append(events, Ev("shutdown", 0, None, "", <<>>, TRUE))
    /\ UNCHANGED <<started, loop_running, client_closed, rx_pc, rx_msg, rx_count,
                   scheduled, queue, consumer_pc, processing_lock, inflight, last,
                   order>>
    /\ UNCHANGED <<env, notEngine>>

\* MeshBot.shutdown called while the engine is not running: it returns at
\* once
ShutdownReturn ==
    /\ loop_running
    /\ shutdown_calls < MaxShutdownCalls
    /\ shutdown_returns_early(running)
    /\ shutdown_calls' = shutdown_calls + 1
    /\ UNCHANGED <<running, started, loop_running, interface_closed, client_closed,
                   shutdown_pc, rx_pc, rx_msg, rx_count, scheduled, queue,
                   consumer_pc, processing_lock, inflight, last, events, order>>
    /\ UNCHANGED <<env, notEngine>>

\* MeshBot.shutdown from the return of client.close() to its end
ShutdownEnd ==
    /\ shutdown_pc = "closing" /\ loop_running
    /\ client_closed' = client_closed + 1
    /\ shutdown_pc' = "done"
    /\ UNCHANGED <<running, started, loop_running, interface_closed, rx_pc, rx_msg,
                   rx_count, scheduled, queue, consumer_pc, processing_lock, inflight,
                   last, events, order>>
    /\ UNCHANGED <<env, shutdown_calls, notEngine>>

\* main() returns after shutdown and asyncio.run closes the loop: the
\* tasks still pending are cancelled (`except asyncio.CancelledError: break`)
LoopStop ==
    /\ shutdown_pc = "done" /\ loop_running
    /\ loop_running' = FALSE
    /\ consumer_pc' = "exited"
    /\ inflight' = {}
    /\ processing_lock' = FALSE
    /\ UNCHANGED <<running, started, interface_closed, client_closed, shutdown_pc,
                   rx_pc, rx_msg, rx_count, scheduled, queue, last, events, order>>
    /\ UNCHANGED <<env, shutdown_calls, notEngine>>

EngineNext ==
    \/ Run \/ ConsumerStart \/ OnReceive \/ ScheduleAsyncProcessing \/ QueueMessage
    \/ ConsumerDequeue \/ ConsumerTimeout \/ ChatReturn
    \/ ShutdownBegin \/ ShutdownEnd \/ LoopStop

\* the same with every call of shutdown(), also those that find the engine
\* not running
EngineLifeNext == EngineNext \/ ShutdownReturn

(***************************************************************************)
(* Part 4.  AsyncWebSocketsClient (meshbot/api/ws_platform.py)             *)
(*                                                                         *)
(* The client's coroutines run as asyncio tasks on one event loop: two     *)
(* callers of chat(), one caller of close(), and the receive loops that    *)
(* start() creates.  A task runs without interruption from one point where *)
(* it really waits to the next; those points are                           *)
(*    a wait for self._lock           websockets.connect                   *)
(*    websocket.send                  websocket.recv                       *)
(*    websocket.close                 asyncio.sleep                        *)
(*    wait_for(response_event.wait())                                      *)
(* Between them the code is a control-flow graph over the labels below;    *)
(* `step` is one edge of it and `run` follows edges up to the next wait.   *)
(* Calls among the client's own coroutines (chat -> start ->               *)
(* _connect_with_retry -> init, ...) push the label to return to on the    *)
(* task's stack.  No message handler is registered anywhere in the         *)
(* repository, so _call_handlers never waits.                              *)
(***************************************************************************)

ChatTasks == {"A", "B"}
CloseTask == "X"
SendTask == "S"                 \* a caller of send_message()
RecvTasks == {"R1", "R2"}
Tasks == ChatTasks \cup {CloseTask, SendTask} \cup RecvTasks

max_reconnect_attempts == 5
reconnect_delay == 1
max_reconnect_delay == 30

\* the connect calls the network answers (connection ids are 1..MaxConnects)
MaxConnects == 2

\* the same for a server that is reachable once and never again
MaxLossConnects == 8

\* the same for a server that comes up late
MaxLateConnects == 7

\* a network on which any connect may succeed or fail
AnyNet == [limit |-> MaxConnects, up |-> 1..MaxConnects]

\* a network on which the first connect succeeds and every later one fails
LossNet == [limit |-> MaxLossConnects, up |-> {1}]

\* a network on which the first max_reconnect_attempts + 1 connects fail and
\* the later ones may succeed
LateNet ==
    [limit |-> MaxLateConnects,
     up |-> (max_reconnect_attempts + 2)..(MaxLateConnects + 1)]

\* a frame of the server: the response to request request_id
Frame(request_id) == [request_id |-> request_id, message |-> <<"reply", request_id>>]
NoFrame == [request_id |-> 0, message |-> <<>>]

\* what chat returns
Result(success, error, raw_response) ==
    [success |-> success, error |-> error, response |-> raw_response.message,
     raw_response |-> raw_response]
NoResult == Result(FALSE, "pending", NoFrame)

\* a task before it is called or created
\* attempt counts the connects that failed in the task's present call of
\* _connect_with_retry; delay is the value of its local variable of that
\* name and slept the delay of the sleep before
NewTask(pc) ==
    [pc |-> pc, stack |-> <<>>, ret |-> None, rid |-> 0, conn |-> 0, result |-> NoResult,
     attempt |-> 0, delay |-> 0, slept |-> 0]

\* the labels at which a task waits
WaitLabels ==
    {"idle", "unborn", "created", "done",
     "i_lockwait", "x_lockwait", "m_lockwait",
     "i_connect", "w_sleep", "x_closing", "m_send", "c_wait",
     "r_sleep", "r_recv", "r_tick", "r_storm"}

\* the client as one record, for `step`
WS ==
    [is_connected |-> is_connected, is_running |-> is_running,
     websocket |-> websocket, reconnect_attempts |-> reconnect_attempts,
     lock_holder |-> lock_holder, lock_waiters |-> lock_waiters,
     pending_responses |-> pending_responses, event |-> event, task |-> task,
     conn_open |-> conn_open, connects |-> connects, unanswered |-> unanswered,
     next_rid |-> next_rid]

\* ---- control flow -----------------------------------------------------
goto(st, t, pc) == [st EXCEPT !.task[t].pc = pc]

\* await a coroutine of the client: run it from `entry`, come back at `back`
call(st, t, entry, back) ==
    [st EXCEPT !.task[t].pc = entry, !.task[t].stack = <<back>> \o @]

\* return val to the caller
return(st, t, val) ==
    [st EXCEPT !.task[t].pc = Head(st.task[t].stack),
               !.task[t].stack = Tail(@),
               !.task[t].ret = val]

\* the task's outermost coroutine returns res
finish(st, t, res) ==
    [st EXCEPT !.task[t].pc = "done", !.task[t].result = res]

\* asyncio.Lock.acquire: taken at once when the lock is free and nobody
\* waits, else the task joins the FIFO of waiters
acquire(st, t, then, waitpc) ==
    IF st.lock_holder = None /\ st.lock_waiters = <<>>
    THEN goto([st EXCEPT !.lock_holder = t], t, then)
    ELSE goto([st EXCEPT !.lock_waiters = Append(@, t)], t, waitpc)

\* asyncio.Lock.release: the first waiter is woken and nobody can take the
\* lock before it runs
release(st) ==
    IF st.lock_waiters = <<>>
    THEN [st EXCEPT !.lock_holder = None]
    ELSE [st EXCEPT !.lock_holder = Head(st.lock_waiters),
                    !.lock_waiters = Tail(@)]

\* self._pending_responses[request_id] = (response_event, response_data)
pending_set(pending, request_id, t) ==
    [r \in (DOMAIN pending) \cup {request_id} |->
        IF r = request_id THEN t ELSE pending[r]]

\* self._pending_responses.pop(request_id, None)
pending_pop_keeping(pending, request_id) == pending

pending_pop(pending, request_id) ==
    [r \in (DOMAIN pending) \ {request_id} |-> pending[r]]

\* min(a, b)
min(a, b) == IF a <= b THEN a ELSE b

\* the delay _connect_with_retry computes from self.reconnect_attempts
retry_delay(attempts) ==
    min(reconnect_delay * (2 ^ (attempts - 1)), max_reconnect_delay)

\* await self._connect_with_retry(): a new call of it
connect_with_retry(st, t, back) ==
    call([st EXCEPT !.task[t].attempt = 0, !.task[t].delay = 0,
                    !.task[t].slept = 0], t, "w0", back)

\* asyncio.create_task(self._receive_messages())
create_receive_task(st) ==
    LET t == IF st.task["R1"].pc = "unborn" THEN "R1" ELSE "R2"
    IN  goto(st, t, "created")

\* `self.websocket and not self.websocket.closed`
websocket_open(st) == st.websocket # 0 /\ st.websocket \in st.conn_open

PyBool(b) == IF b THEN "True" ELSE "False"

\* _handle_message: the pending entry a response frame is matched to
pending_lookup_any(pending, request_id) ==
    pending[CHOOSE r \in DOMAIN pending : TRUE]

pending_lookup(pending, request_id) == pending[request_id]

\* AsyncWebSocketsClient._handle_message for a response frame
_handle_message(st, data) ==
    IF data.request_id # 0 /\ data.request_id \in DOMAIN st.pending_responses
    THEN LET t == pending_lookup(st.pending_responses, data.request_id)
         IN  [st EXCEPT !.event[t] = [is_set |-> TRUE, data |-> data]]
    ELSE st     \* _call_handlers with no handler

\* One edge of the control-flow graph, from a label that is not a wait.
step(st, t) ==
    LET me == st.task[t]
        pc == me.pc
    IN  CASE
        \* ---- chat (235-308) ----
           pc = "c0" ->
               IF ~st.is_running THEN call(st, t, "s0", "c1")
               ELSE call(st, t, "e0", "c1")
        [] pc = "c1" ->
               IF ~st.is_connected
               THEN finish(st, t, Result(FALSE, "not connected", NoFrame))
               ELSE LET request_id == st.next_rid
                    IN  call([st EXCEPT
                                !.next_rid = request_id + 1,
                                !.task[t].rid = request_id,
                                !.event[t] = [is_set |-> FALSE, data |-> NoFrame],
                                !.pending_responses = pending_set(@, request_id, t)],
                             t, "m0", "c2")
        [] pc = "c2" ->
               IF me.ret # "sent"
               THEN finish([st EXCEPT !.pending_responses = pending_pop(@, me.rid)],
                           t, Result(FALSE, me.ret, NoFrame))
               ELSE goto(st, t, "c_wait")
        \* ---- start (63-77) ----
        [] pc = "s0" ->
               IF st.is_running THEN return(st, t, None)
               ELSE connect_with_retry([st EXCEPT !.is_running = TRUE], t, "s1")
        [] pc = "s1" ->
               IF me.ret = "True" THEN return(create_receive_task(st), t, None)
               ELSE return(st, t, None)
        \* ---- _connect_with_retry (79-101) ----
        [] pc = "w0" ->
               IF st.is_running /\ ~st.is_connected THEN call(st, t, "i0", "w1")
               ELSE return(st, t, PyBool(st.is_connected))
        [] pc = "w1" ->
               IF me.ret = "True" THEN return(st, t, "True")
               ELSE LET st2 == [st EXCEPT !.reconnect_attempts = @ + 1,
                                          !.task[t].attempt = @ + 1]
                    IN  IF st2.reconnect_attempts > max_reconnect_attempts
                        THEN return(st2, t, "False")
                        ELSE goto([st2 EXCEPT
                                     !.task[t].slept = me.delay,
                                     !.task[t].delay = retry_delay(st2.reconnect_attempts)],
                                  t, "w_sleep")
        \* ---- _ensure_connection (103-107) ----
        [] pc = "e0" ->
               IF ~st.is_connected /\ st.is_running THEN connect_with_retry(st, t, "e1")
               ELSE return(st, t, None)
        [] pc = "e1" -> return(st, t, None)
        \* ---- init (33-51) ----
        [] pc = "i0" ->
               IF st.is_connected /\ websocket_open(st) THEN return(st, t, "True")
               ELSE acquire(st, t, "i_connect", "i_lockwait")
        \* ---- close (53-61) ----
        [] pc = "x0" -> acquire(st, t, "x1", "x_lockwait")
        [] pc = "x1" ->
               LET st2 == [st EXCEPT !.is_running = FALSE, !.is_connected = FALSE]
               IN  IF websocket_open(st2)
                   THEN goto([st2 EXCEPT !.task[t].conn = st.websocket], t, "x_closing")
                   ELSE finish(release(st2), t, NoResult)
        \* ---- send_message (198-233) ----
        [] pc = "sm0" -> call(st, t, "m0", "sm1")    \* a caller awaits it
        [] pc = "sm1" -> finish(st, t, Result(me.ret = "sent", me.ret, NoFrame))
        [] pc = "m0" -> acquire(st, t, "m1", "m_lockwait")
        [] pc = "m1" ->
               IF ~st.is_running THEN call(st, t, "s0", "m2")
               ELSE call(st, t, "e0", "m2")
        [] pc = "m2" ->
               IF ~st.is_connected \/ st.websocket = 0
               THEN return(release(st), t, "not connected")
               ELSE goto([st EXCEPT !.task[t].conn = st.websocket], t, "m_send")
        \* ---- _receive_messages (109-139) ----
        [] pc = "r0" ->
               IF ~st.is_running THEN finish(st, t, NoResult)
               ELSE IF ~st.is_connected THEN call(st, t, "e0", "r1")
               ELSE goto(st, t, "r2")
        [] pc = "r1" ->
               IF ~st.is_connected THEN goto(st, t, "r_sleep") ELSE goto(st, t, "r2")
        [] pc = "r2" ->
               IF st.websocket = 0 THEN goto(st, t, "r_tick")
               ELSE IF \E o \in RecvTasks :
                          st.task[o].pc = "r_recv" /\ st.task[o].conn = st.websocket
               \* recv() while another coroutine is in recv() on the same
               \* connection raises RuntimeError: `except Exception`
               THEN goto([st EXCEPT !.is_connected = FALSE], t, "r_storm")
               ELSE goto([st EXCEPT !.task[t].conn = st.websocket], t, "r_recv")

\* run task t up to its next wait
RECURSIVE run(_, _)
run(st, t) == IF st.task[t].pc \in WaitLabels THEN st ELSE run(step(st, t), t)

\* ---- the client's state and steps --------------------------------------

\* AsyncWebSocketsClient.__init__: nothing called yet, on network n; the
\* tasks of `absent` are not part of the run
WSStart(n, absent) ==
    /\ net = n
    /\ is_connected = FALSE
    /\ is_running = FALSE
    /\ websocket = 0
    /\ reconnect_attempts = 0
    /\ lock_holder = None
    /\ lock_waiters = <<>>
    /\ pending_responses = [r \in {} |-> None]
    /\ event = [t \in ChatTasks |-> [is_set |-> FALSE, data |-> NoFrame]]
    /\ task = [t \in Tasks |-> NewTask(IF t \in absent THEN "done"
                                       ELSE IF t \in RecvTasks THEN "unborn"
                                       ELSE "idle")]
    /\ conn_open = {}
    /\ connects = 0
    /\ unanswered = {}
    /\ next_rid = 1

WSIdle == WSStart(AnyNet, {SendTask})

\* the client after a step that leaves it as the record st
Becomes(st) ==
    /\ is_connected' = st.is_connected
    /\ is_running' = st.is_running
    /\ websocket' = st.websocket
    /\ reconnect_attempts' = st.reconnect_attempts
    /\ lock_holder' = st.lock_holder
    /\ lock_waiters' = st.lock_waiters
    /\ pending_responses' = st.pending_responses
    /\ event' = st.event
    /\ task' = st.task
    /\ conn_open' = st.conn_open
    /\ connects' = st.connects
    /\ unanswered' = st.unanswered
    /\ next_rid' = st.next_rid
    /\ UNCHANGED <<net, notWS>>

\* a caller awaits chat(user_name, message, system_prompt, timeout)
ChatCall(t) ==
    /\ task[t].pc = "idle"
    /\ Becomes(run(goto(WS, t, "c0"), t))

\* a caller awaits send_message(message); an empty message returns at once
SendCall ==
    /\ task[SendTask].pc = "idle"
    /\ \E message \in {"", "text"} :
         IF message = ""
         THEN Becomes(finish(WS, SendTask, Result(FALSE, "empty", NoFrame)))
         ELSE Becomes(run(goto(WS, SendTask, "sm0"), SendTask))

\* a caller awaits close()
CloseCall ==
    /\ task[CloseTask].pc = "idle"
    /\ Becomes(run(goto(WS, CloseTask, "x0"), CloseTask))

\* the task created by start() runs for the first time
ReceiveStart(t) ==
    /\ task[t].pc = "created"
    /\ Becomes(run(goto(WS, t, "r0"), t))

\* a waiter that release() woke takes the lock and goes on: init into
\* websockets.connect, close and send_message into their bodies
LockGranted(t) ==
    /\ task[t].pc \in {"i_lockwait", "x_lockwait", "m_lockwait"}
    /\ lock_holder = t
    /\ \A i \in 1..Len(lock_waiters) : lock_waiters[i] # t
    /\ Becomes(CASE task[t].pc = "i_lockwait" -> goto(WS, t, "i_connect")
                 [] task[t].pc = "x_lockwait" -> run(goto(WS, t, "x1"), t)
                 [] task[t].pc = "m_lockwait" -> run(goto(WS, t, "m1"), t))

\* websockets.connect returns a connection or raises (init, 39-51)
ConnectDone(t) ==
    /\ task[t].pc = "i_connect"
    /\ connects < net.limit
    /\ \E ok \in BOOLEAN :
         /\ ok => (connects + 1) \in net.up
         /\ LET c == connects + 1
                st == IF ok
                      THEN [WS EXCEPT !.connects = c, !.websocket = c,
                                      !.conn_open = @ \cup {c},
                                      !.is_connected = TRUE,
                                      !.reconnect_attempts = 0]
                      ELSE [WS EXCEPT !.connects = c]
            IN  Becomes(run(return(release(st), t, PyBool(ok)), t))

\* asyncio.sleep returns
SleepDone(t) ==
    /\ task[t].pc \in {"w_sleep", "r_sleep", "r_tick", "r_storm"}
    /\ Becomes(CASE task[t].pc = "w_sleep" -> run(goto(WS, t, "w0"), t)
                 [] task[t].pc = "r_storm" -> goto(WS, t, "r_tick")
                 [] OTHER -> run(goto(WS, t, "r0"), t))

\* websocket.close() returns (close, 59-61)
CloseDone ==
    /\ task[CloseTask].pc = "x_closing"
    /\ Becomes(finish(release([WS EXCEPT !.conn_open = @ \ {task[CloseTask].conn}]),
                      CloseTask, NoResult))

\* websocket.send returns, or raises ConnectionClosed (send_message, 222-229)
SendDone(t) ==
    /\ task[t].pc = "m_send"
    /\ IF task[t].conn \in conn_open
       THEN Becomes(run(return(release(
                [WS EXCEPT !.unanswered = @ \cup {<<task[t].conn, task[t].rid>>}]),
                t, "sent"), t))
       ELSE Becomes(run(return(release([WS EXCEPT !.is_connected = FALSE]),
                               t, "closed"), t))

\* wait_for(response_event.wait(), timeout) returns: the response is read
\* and the pending entry removed (286-304)
ChatResponse(t) ==
    /\ task[t].pc = "c_wait"
    /\ event[t].is_set
    /\ Becomes(finish([WS EXCEPT !.pending_responses = pending_pop(@, task[t].rid)],
                      t, Result(TRUE, "", event[t].data)))

\* wait_for raises TimeoutError (299-304)
ChatTimeout(t) ==
    /\ task[t].pc = "c_wait"
    /\ ~event[t].is_set
    /\ Becomes(finish([WS EXCEPT !.pending_responses = pending_pop(@, task[t].rid)],
                      t, Result(FALSE, "timeout", NoFrame)))

\* websocket.recv() returns the server's response to one of the requests
\* it has received on this connection, in any order (120-127, 139)
RecvFrame(t) ==
    /\ task[t].pc = "r_recv"
    /\ task[t].conn \in conn_open
    /\ \E u \in unanswered :
         /\ u[1] = task[t].conn
         /\ LET st == [WS EXCEPT !.unanswered = @ \ {u}]
            IN  IF ~is_running
                THEN Becomes(finish(st, t, NoResult))
                ELSE Becomes(goto(_handle_message(st, Frame(u[2])), t, "r_tick"))

\* websocket.recv() raises ConnectionClosed (129-131, 139)
RecvClosed(t) ==
    /\ task[t].pc = "r_recv"
    /\ task[t].conn \notin conn_open
    /\ Becomes(goto([WS EXCEPT !.is_connected = FALSE], t, "r_tick"))

\* the network or the server drops a connection
NetDrop ==
    \E c \in conn_open :
        Becomes([WS EXCEPT !.conn_open = @ \ {c},
                           !.unanswered = {u \in @ : u[1] # c}])

WSNext ==
    \/ \E t \in ChatTasks : ChatCall(t)
    \/ CloseCall
    \/ \E t \in RecvTasks : ReceiveStart(t)
    \/ \E t \in Tasks : LockGranted(t)
    \/ \E t \in Tasks : ConnectDone(t)
    \/ \E t \in Tasks : SleepDone(t)
    \/ CloseDone
    \/ \E t \in ChatTasks \cup {SendTask} : SendDone(t)
    \/ \E t \in ChatTasks : ChatResponse(t)
    \/ \E t \in ChatTasks : ChatTimeout(t)
    \/ \E t \in RecvTasks : RecvFrame(t)
    \/ \E t \in RecvTasks : RecvClosed(t)
    \/ NetDrop

(***************************************************************************)
(* Part 5.  Classification of one packet                                   *)
(*                                                                         *)
(* _on_receive of a running engine is called with one packet of any kind   *)
(* the radio driver delivers: with or without a decoded payload, a text,   *)
(* a position or a telemetry packet, the text empty, blank or not, the     *)
(* position missing, partial or complete; the decoded payload or the text  *)
(* may be present with the value None (packet.null names that field).      *)
(***************************************************************************)
Positions ==
    {<<>>,
     <<[latitude |-> None, longitude |-> "121.4"]>>,
     <<[latitude |-> "31.2", longitude |-> None]>>,
     <<[latitude |-> "31.2", longitude |-> "121.4"]>>}

\* the destinations of a packet: this node, another node, and the two
\* broadcast addresses as the driver delivers them
ClassifyDestinations == {NodeId, PeerId, BROADCAST_NUM, NEARBY_NUM}

\* the texts of a packet, some of them in two spellings that differ in
\* letter case only
ClassifyTexts == {{}, {"hi"}, {"@bot"}, {"@BOT"}, {"@all"}, {"@ALL"}}

ClassifyPackets ==
    [decoded : BOOLEAN,
     from : {PeerId, NodeId},
     to : ClassifyDestinations,
     portnum : {"TEXT_MESSAGE_APP", "POSITION_APP", "TELEMETRY_APP"},
     text : ClassifyTexts,
     pad : BOOLEAN,
     position : Positions,
     null : {"nothing", "decoded", "text"}]

\* the exception that leaves analyze_packet, None for none: decoded.get on
\* a payload that is None, strip() on a text that is None
analyze_packet_raises(packet) ==
    IF ~packet.decoded THEN None
    ELSE IF packet.null = "decoded" THEN "AttributeError"
    ELSE IF packet.portnum = "TEXT_MESSAGE_APP" /\ packet.null = "text"
         THEN "AttributeError"
    ELSE None

ClassifyInputs ==
    /\ c_packet \in ClassifyPackets
    /\ c_result = <<>>
    /\ c_scheduled = FALSE
    /\ c_pc = "call"

ClassifyIdle ==
    /\ c_packet = [decoded |-> FALSE, from |-> PeerId, to |-> NodeId,
                   portnum |-> "TELEMETRY_APP", text |-> {}, pad |-> FALSE,
                   position |-> <<>>, null |-> "nothing"]
    /\ c_result = <<>>
    /\ c_scheduled = FALSE
    /\ c_pc = "call"

\* analyze_packet on the packet, and what _on_receive of a running engine
\* does with its result; _on_receive handles no exception, so one that
\* leaves analyze_packet leaves the callback ("raised")
Classify ==
    /\ c_pc = "call"
    /\ IF ~early_return(TRUE, c_packet, NodeId) /\ analyze_packet_raises(c_packet) # None
       THEN /\ c_pc' = "raised"
            /\ UNCHANGED <<c_result, c_scheduled>>
       ELSE /\ c_result' = analyze_packet(c_packet, NodeId)
            /\ c_scheduled' = (~early_return(TRUE, c_packet, NodeId)
                                 /\ analyze_packet(c_packet, NodeId) # <<>>)
            /\ c_pc' = "done"
    /\ UNCHANGED c_packet
    /\ UNCHANGED notClassify

(***************************************************************************)
(* Part 6.  The conversation history of the HTTP backends                  *)
(*                                                                         *)
(* AsyncOllamaChatClient, AsyncGeminiChatClient and                        *)
(* AsyncFastAPIChatClient keep the exchanges of one instance in            *)
(* self.conversation_history.  chat() holds self._lock from before the     *)
(* request is built until it returns, so the calls on one instance run one *)
(* after the other: one call is in flight at a time.  A message text is a  *)
(* number; each call carries the text that follows the last one recorded,  *)
(* or the empty text, and the reply to text k is Reply(k).                 *)
(***************************************************************************)
Backends == {"ollama", "gemini", "fastapi"}

\* the length _update_conversation_history cuts the history to
max_history_odd(backend) == IF backend = "gemini" THEN 9 ELSE 19

max_history(backend) == IF backend = "gemini" THEN 10 ELSE 20

\* the exchanges one run records at most
MaxChats == 11

Reply(k) == [reply |-> k]
\* what _extract_response returns for a body it cannot read: a text that is
\* the reply to no message
Apology == [reply |-> 0]

\* l[-n:]
slice_last(l, n) == IF Len(l) <= n THEN l ELSE SubSeq(l, Len(l) - n + 1, Len(l))

\* the two entries of one exchange
exchange(user_message, ai_response) ==
    <<[role |-> "user", content |-> user_message],
      [role |-> "assistant", content |-> ai_response]>>

\* _update_conversation_history: the new value of self.conversation_history
_update_conversation_history_keeping_oldest(history, cap, user_message, ai_response) ==
    LET grown == history \o exchange(user_message, ai_response)
    IN  IF Len(grown) > cap THEN SubSeq(grown, 1, cap) ELSE grown

_update_conversation_history(history, cap, user_message, ai_response) ==
    LET grown == history \o exchange(user_message, ai_response)
    IN  IF Len(grown) > cap THEN slice_last(grown, cap) ELSE grown

\* what the server, or the network, does with one request
HttpOutcomes == {"200", "200_unreadable", "status_error", "client_error"}

HistoryStart(backend) ==
    /\ h_backend = backend
    /\ conversation_history = <<>>
    /\ h_pc = "idle"
    /\ h_message = 0
    /\ h_result = "none"
    /\ h_exchanges = <<>>

HistoryIdle == HistoryStart("ollama")

HistoryInputs == \E backend \in Backends : HistoryStart(backend)

\* chat() up to `await self.session.post(...)`: an empty message returns at
\* once, any other takes the lock and sends the request
HistoryChatCall ==
    /\ h_pc = "idle"
    /\ Len(h_exchanges) < 2 * MaxChats
    /\ \E message \in {0, Len(h_exchanges) \div 2 + 1} :
          IF message = 0
          THEN /\ h_result' = "empty"
               /\ UNCHANGED <<h_pc, h_message>>
          ELSE /\ h_pc' = "post"
               /\ h_message' = message
               /\ h_result' = "none"
    /\ UNCHANGED <<h_backend, conversation_history, h_exchanges>>
    /\ UNCHANGED notHistory

\* chat() from `if resp.status == 200` to its return: whether it calls
\* _update_conversation_history, and the result it returns.  A 200 whose
\* body has no reply in it raises KeyError in the Ollama client before the
\* history is touched, which the handler turns into a failure; the Gemini
\* client takes the apology of _extract_response as the reply; the FastAPI
\* client finds no success in the body and returns the error of the server.
chat_outcome_recording_first(backend, outcome) ==
    [record |-> outcome # "client_error",
     result |-> IF outcome = "200" \/ (outcome = "200_unreadable" /\ backend = "gemini")
                THEN "success"
                ELSE IF outcome = "status_error" THEN "api_error"
                ELSE IF outcome = "client_error" THEN "network_error"
                ELSE IF backend = "fastapi" THEN "server_error"
                ELSE "exception"]

chat_outcome(backend, outcome) ==
    IF outcome = "200" \/ (outcome = "200_unreadable" /\ backend = "gemini")
    THEN [record |-> TRUE, result |-> "success"]
    ELSE [record |-> FALSE,
          result |-> IF outcome = "status_error" THEN "api_error"
                     ELSE IF outcome = "client_error" THEN "network_error"
                     ELSE IF backend = "fastapi" THEN "server_error"
                     ELSE "exception"]

\* chat() from the answer to the request to its return
HistoryChatReturn ==
    /\ h_pc = "post"
    /\ \E outcome \in HttpOutcomes :
          LET out == chat_outcome(h_backend, outcome)
              ai_response == IF outcome = "200" THEN Reply(h_message) ELSE Apology
          IN  /\ h_result' = out.result
              /\ IF out.record
                 THEN /\ conversation_history' =
                            _update_conversation_history(conversation_history,
                                max_history(h_backend), h_message, ai_response)
                      /\ h_exchanges' = h_exchanges \o exchange(h_message, ai_response)
                 ELSE UNCHANGED <<conversation_history, h_exchanges>>
    /\ h_pc' = "idle"
    /\ h_message' = 0
    /\ UNCHANGED h_backend
    /\ UNCHANGED notHistory

(***************************************************************************)
(* Part 7.  AsyncWebSocketsClient._handle_message on one frame             *)
(*                                                                         *)
(* The text of a frame is what json.loads makes of it: no JSON at all, a   *)
(* JSON value that is not an object, or an object.  Of an object only the  *)
(* member request_id matters: absent, the empty string, a string, or a     *)
(* JSON array (a Python list, which cannot be hashed).                     *)
(***************************************************************************)
RequestIds == {"r1", "r2"}

\* json.loads(message): the value, or JSONDecodeError
json_loads(message) ==
    IF message.form = "text" THEN [error |-> "JSONDecodeError"]
    ELSE [error |-> None, value |-> message.value]

\* the frames _handle_message is given
FrameTexts ==
    {[form |-> "text", value |-> "plain"]}
    \cup {[form |-> "json", value |-> [type |-> "list"]]}
    \cup {[form |-> "json", value |-> [type |-> "dict", request_id |-> r]] :
             r \in {None, "", "[1]"} \cup RequestIds}

\* `request_id and ...`: the truth value of data.get('request_id')
truthy(request_id) == request_id \notin {None, ""}

\* hash(request_id) succeeds
hashable(request_id) == request_id # "[1]"

\* nothing done yet
NoDispatch ==
    [set |-> {}, slot |-> {}, handled |-> <<>>, order |-> <<>>, logged |-> <<>>,
     raised |-> None, is_connected |-> TRUE]

\* what a handler does when it is called
HandlerKinds == {"returns", "raises"}

\* _call_handlers from handler i on: the handler is given data (handled,
\* order); an Exception it raises is logged and the loop goes on
RECURSIVE call_handlers_from(_, _, _, _)
call_handlers_from(out, data, handlers, i) ==
    IF i > Len(handlers) THEN out
    ELSE LET called == [out EXCEPT !.handled = Append(@, data),
                                   !.order = Append(@, i)]
         IN  call_handlers_from(
                 IF handlers[i] = "raises"
                 THEN [called EXCEPT !.logged = Append(@, i)]
                 ELSE called,
                 data, handlers, i + 1)

\* _call_handlers(data): every registered handler is given data, in order
_call_handlers_stopping_at_error(out, data, handlers) ==
    LET raisers == {i \in 1..Len(handlers) : handlers[i] = "raises"}
        stop == IF raisers = {} THEN Len(handlers)
                ELSE CHOOSE i \in raisers : \A j \in raisers : i <= j
    IN  [out EXCEPT !.handled = @ \o [i \in 1..stop |-> data],
                    !.order = @ \o [i \in 1..stop |-> i],
                    !.logged = IF raisers = {} THEN @ ELSE Append(@, stop)]

_call_handlers(out, data, handlers) == call_handlers_from(out, data, handlers, 1)

\* _handle_message(message) with the pending keys `pending` and `handlers`
\* registered handlers: the events it sets, the slots it fills
\* (<<request id, data>>), the handler calls, the exception that leaves it
_handle_message_frame(message, pending, handlers) ==
    LET loaded == json_loads(message)
    IN  IF loaded.error # None
        THEN _call_handlers(NoDispatch, message, handlers)
        ELSE LET data == loaded.value
             IN  IF data.type = "dict" /\ truthy(data.request_id)
                 THEN IF ~hashable(data.request_id)
                      THEN [NoDispatch EXCEPT !.raised = "TypeError"]
                      ELSE IF data.request_id \in pending
                      THEN [NoDispatch EXCEPT !.set = {data.request_id},
                                              !.slot = {<<data.request_id, data>>}]
                      ELSE _call_handlers(NoDispatch, data, handlers)
                 ELSE _call_handlers(NoDispatch, data, handlers)

MaxHandlers == 2

DispatchInputs ==
    /\ d_message \in FrameTexts
    /\ d_pending \in SUBSET RequestIds
    /\ d_handlers \in UNION {[1..n -> HandlerKinds] : n \in 0..MaxHandlers}
    /\ d_out = NoDispatch
    /\ d_pc = "call"

DispatchIdle ==
    /\ d_message = [form |-> "text", value |-> "plain"]
    /\ d_pending = {}
    /\ d_handlers = <<>>
    /\ d_out = NoDispatch
    /\ d_pc = "call"

\* _receive_messages from `await self._handle_message(message_str)` to the
\* sleep that ends the iteration: an exception that leaves _handle_message
\* is caught by `except Exception`, which marks the client disconnected
receive_one(message, pending, handlers) ==
    LET out == _handle_message_frame(message, pending, handlers)
    IN  [out EXCEPT !.is_connected = (out.raised = None)]

\* the receive loop awaits _handle_message(message_str)
Dispatch ==
    /\ d_pc = "call"
    /\ d_out' = receive_one(d_message, d_pending, d_handlers)
    /\ d_pc' = "done"
    /\ UNCHANGED <<d_message, d_pending, d_handlers>>
    /\ UNCHANGED notDispatch

(***************************************************************************)
(* Specifications                                                          *)
(***************************************************************************)
ChunkInit == ChunkInputs /\ FactoryIdle /\ EngineIdle /\ WSIdle /\ ClassifyIdle /\ HistoryIdle
    /\ DispatchIdle
ChunkNext == Truncate
SpecChunk == ChunkInit /\ [][ChunkNext]_vars

FactoryInit == FactoryInputs /\ ChunkIdle /\ EngineIdle /\ WSIdle /\ ClassifyIdle /\ HistoryIdle
    /\ DispatchIdle
FactoryNext == CreateClient
SpecFactory == FactoryInit /\ [][FactoryNext]_vars

EngineInit == EngineIdle /\ ChunkIdle /\ FactoryIdle /\ WSIdle /\ ClassifyIdle /\ HistoryIdle
    /\ DispatchIdle
SpecEngine == EngineInit /\ [][EngineNext]_vars

\* The event loop runs every task that is ready, the dequeue timeout
\* fires, and the backend call returns.  Packets, the shutdown request and
\* the end of the process are not obliged to happen.
EngineFairInit == EngineStart(SmallEnv) /\ ChunkIdle /\ FactoryIdle /\ WSIdle /\ ClassifyIdle /\ HistoryIdle
    /\ DispatchIdle
SpecEngineFair ==
    /\ EngineFairInit /\ [][EngineNext]_vars
    /\ WF_vars(ConsumerStart) /\ WF_vars(ConsumerDequeue) /\ WF_vars(ConsumerTimeout)
    /\ WF_vars(ChatReturn) /\ WF_vars(QueueMessage)

\* The engine with any number of shutdown() calls.  Besides the steps of the
\* event loop, client.close() returns.
SpecEngineLife ==
    /\ EngineFairInit /\ [][EngineLifeNext]_vars
    /\ WF_vars(ConsumerStart) /\ WF_vars(ConsumerDequeue) /\ WF_vars(ConsumerTimeout)
    /\ WF_vars(ChatReturn) /\ WF_vars(QueueMessage) /\ WF_vars(ShutdownEnd)

WSInit == WSIdle /\ ChunkIdle /\ FactoryIdle /\ EngineIdle /\ ClassifyIdle /\ HistoryIdle
    /\ DispatchIdle
SpecWS == WSInit /\ [][WSNext]_vars

\* one caller of chat and one of close on a network that is lost for good
\* after the first connection
WSLossInit ==
    /\ WSStart(LossNet, {"B", SendTask})
    /\ ChunkIdle /\ FactoryIdle /\ EngineIdle /\ ClassifyIdle /\ HistoryIdle
    /\ DispatchIdle
SpecWSLoss == WSLossInit /\ [][WSNext]_vars

\* one caller of chat, one of close and one of send_message
WSSendInit ==
    /\ WSStart(AnyNet, {"B"})
    /\ ChunkIdle /\ FactoryIdle /\ EngineIdle /\ ClassifyIdle /\ HistoryIdle
    /\ DispatchIdle
WSSendNext == WSNext \/ SendCall
SpecWSSend == WSSendInit /\ [][WSSendNext]_vars

\* two callers of chat and one of close against a server that is not
\* reachable until start() has given up
WSLateInit ==
    /\ WSStart(LateNet, {SendTask})
    /\ ChunkIdle /\ FactoryIdle /\ EngineIdle /\ ClassifyIdle /\ HistoryIdle
    /\ DispatchIdle
SpecWSLate == WSLateInit /\ [][WSNext]_vars

ClassifyInit ==
    ClassifyInputs /\ ChunkIdle /\ FactoryIdle /\ EngineIdle /\ WSIdle /\ HistoryIdle
    /\ DispatchIdle
ClassifyNext == Classify
SpecClassify == ClassifyInit /\ [][ClassifyNext]_vars

HistoryInit ==
    /\ HistoryInputs /\ ChunkIdle /\ FactoryIdle /\ EngineIdle /\ WSIdle /\ ClassifyIdle
    /\ DispatchIdle
HistoryNext == HistoryChatCall \/ HistoryChatReturn
SpecHistory == HistoryInit /\ [][HistoryNext]_vars

DispatchInit ==
    /\ DispatchInputs /\ ChunkIdle /\ FactoryIdle /\ EngineIdle /\ WSIdle
    /\ ClassifyIdle /\ HistoryIdle
DispatchNext == Dispatch
SpecDispatch == DispatchInit /\ [][DispatchNext]_vars

(***************************************************************************)
(* Claims                                                                  *)
(***************************************************************************)
\* ---- claims about the chunker ---------------------------------------

\* the characters that carry content: not terminal punctuation, not
\* secondary punctuation, not whitespace
IsContent(ch) == ch \notin (SentenceEndings \cup SubSeparators)

RECURSIVE Content(_)
Content(s) ==
    IF s = <<>> THEN <<>>
    ELSE IF IsContent(Head(s)) THEN <<Head(s)>> \o Content(Tail(s))
         ELSE Content(Tail(s))

RECURSIVE Concat(_)
Concat(ss) == IF ss = <<>> THEN <<>> ELSE Head(ss) \o Concat(Tail(ss))

\* C1: every chunk truncate_by_sentences returns for a byte_limit > 0 has a
\* UTF-8 length of at most byte_limit.
C1_ChunksWithinLimit ==
    chunk_pc = "done" /\ byte_limit > 0 =>
        \A i \in 1..Len(chunks) : byte_len(chunks[i]) <= byte_limit

\* C10: chunking loses, duplicates and reorders no content: with terminal
\* punctuation, secondary punctuation and whitespace deleted, the
\* concatenation of the chunks equals the input text.
C10_ContentPreserved ==
    chunk_pc = "done" /\ byte_limit > 0 =>
        Content(Concat(chunks)) = Content(text)

\* C10 witness: a call that went through the per-character fallback and
\* returned several chunks holding both content characters.
C10_Witness ==
    /\ chunk_pc = "done"
    /\ byte_limit > 0
    /\ Len(chunks) >= 3
    /\ Content(text) = <<"a", "W", "a", "a">>

\* C26: every chunk truncate_by_sentences returns ends with a terminal
\* punctuation mark.
C26_EveryChunkEndsWithTerminal ==
    chunk_pc = "done" =>
        \A i \in 1..Len(chunks) :
            /\ chunks[i] # <<>>
            /\ chunks[i][Len(chunks[i])] \in {"J", "E", "Q", ".", "!", "?"}

\* ---- claims about create_ai_client ----------------------------------

\* the configured backend was looked up and its construction failed
BuildFailed ==
    /\ f_outcome # NotCalled
    /\ config_lookup(f_platform, f_default, f_clients) # None
    /\ f_failure # "none"

\* C9: whenever constructing the configured backend fails (missing module,
\* missing class or malformed constructor arguments), create_ai_client
\* returns the built-in Ollama backend; it raises only when the Ollama
\* backend itself cannot be constructed.
C9_BuildFailureFallsBack ==
    BuildFailed /\ f_failure \in {"ImportError", "AttributeError", "TypeError"} =>
        IF f_fallback_ok
        THEN f_outcome = [ret |-> "AsyncOllamaChatClient", exc |-> "none"]
        ELSE f_outcome.exc # "none"

\* ---- the Relay Engine --------------------------------------------------

\* the entries of `events` of one kind for message id
EventsOf(ev, id) ==
    SelectSeq(events, LAMBDA e : e.ev = ev /\ e.msg = id)

\* the exchange of the message last dequeued has run to its end
Finished(id) == EventsOf("done", id) # <<>>

\* the channel of a request: a broadcast send for a broadcast message, a
\* send addressed to the sender for a direct one
ChannelOf(m) == IF m.is_broadcast THEN None ELSE m.from_id.v

\* C2: at most one backend chat call is in flight at any time.
C2_OneChatInFlight == Cardinality(inflight) <= 1

\* an exchange is in flight while another message waits in the queue
C2_Witness ==
    /\ Cardinality(inflight) = 1
    /\ consumer_pc = "chat"
    /\ queue # <<>>
    /\ \E item \in inflight : item.id < Head(queue).id

\* C3: messages are processed in the order the ingestion callback handed
\* them to the event loop.  The callback numbers the messages as it hands
\* them over (id), so the claim is that the engine turns to the messages in
\* increasing id: once it has called chat or sendText for B it never again
\* calls chat or sendText for a message handed over before B.
C3_ProcessedInEnqueueOrder ==
    \A i, j \in 1..Len(order) : i < j => order[i] < order[j]

\* two messages were answered one after the other
C3_Witness ==
    /\ Len(order) = 2
    /\ \E e \in {events[i] : i \in 1..Len(events)} :
          e.ev = "send" /\ e.msg = order[2] /\ e.ok

\* C8: the backend is called for a dequeued message iff the message is
\* direct or it is a broadcast that is a mention, contains a question
\* indicator or contains a help/request keyword; a broadcast that is none
\* of these causes no backend call and no send.
C8_ChatIffDirectOrPolicy ==
    last # <<>> =>
        LET id == last[1].id
            m == last[1].m
            qualifies ==
                \/ ~m.is_broadcast
                \/ m.is_mention
                \/ \E q \in question_indicators : Contains(m.text, q)
                \/ \E k \in response_keywords : Contains(m.text, k)
        IN  /\ qualifies <=> Len(EventsOf("chat", id)) = 1
            /\ ~qualifies => /\ EventsOf("chat", id) = <<>>
                             /\ EventsOf("send", id) = <<>>
                             /\ Finished(id)

\* a broadcast with a help keyword, no mention and no question, is
\* answered
C8_Witness ==
    /\ last # <<>>
    /\ last[1].m.is_broadcast /\ ~last[1].m.is_mention
    /\ last[1].m.text = {"bangzhu"}
    /\ \E e \in {events[i] : i \in 1..Len(events)} :
          e.ev = "send" /\ e.msg = last[1].id /\ e.ok

\* the result chat returned for message id: <<>> or <<result entry>>
ResultOf(id) == EventsOf("result", id)

\* C6 as stated: after a failure result the engine makes exactly one send
\* for the message, with the reported error text, on the request's
\* channel, and calls chat once.
C6_ExactlyOneErrorSend ==
    last # <<>> =>
        LET id == last[1].id
            sends == EventsOf("send", id)
        IN  (Finished(id) /\ ResultOf(id) # <<>> /\ ResultOf(id)[1].kind = "failure") =>
                /\ Len(sends) = 1
                /\ sends[1].kind = "failed"
                /\ sends[1].body = ResultOf(id)[1].body
                /\ sends[1].dest = ChannelOf(last[1].m)
                /\ Len(EventsOf("chat", id)) = 1

\* C6 amended: after a failure result the first send for the message
\* carries the reported error text on the request's channel, and chat is
\* called once.  If that send returns it is the only send for the message;
\* if it raises, the engine makes exactly one more send, the generic error
\* notice, on the same channel.
C6_ErrorSendThenAtMostOneNotice ==
    last # <<>> =>
        LET id == last[1].id
            sends == EventsOf("send", id)
        IN  (Finished(id) /\ ResultOf(id) # <<>> /\ ResultOf(id)[1].kind = "failure") =>
                /\ Len(sends) >= 1
                /\ sends[1].kind = "failed"
                /\ sends[1].body = ResultOf(id)[1].body
                /\ sends[1].dest = ChannelOf(last[1].m)
                /\ Len(EventsOf("chat", id)) = 1
                /\ sends[1].ok => Len(sends) = 1
                /\ ~sends[1].ok => /\ Len(sends) = 2
                                   /\ sends[2].kind = "exception"
                                   /\ sends[2].dest = ChannelOf(last[1].m)

\* a direct message whose exchange failed with "timeout": the send of the
\* error text raised and the generic notice went to the sender
C6_Witness ==
    /\ last # <<>>
    /\ ~last[1].m.is_broadcast
    /\ Finished(last[1].id)
    /\ ResultOf(last[1].id) # <<>>
    /\ ResultOf(last[1].id)[1].kind = "failure"
    /\ ResultOf(last[1].id)[1].body = <<"timeout">>
    /\ Len(EventsOf("send", last[1].id)) = 2
    /\ ~EventsOf("send", last[1].id)[1].ok
    /\ EventsOf("send", last[1].id)[2].ok
    /\ EventsOf("send", last[1].id)[2].dest = PeerId.v

\* C7: a failure local to one message never halts the engine.  While the
\* engine is running the started consumer is either inside an exchange or
\* at queue.get() with the serialization lock free, so the next message
\* enqueued is dequeued and processed; it is never out of its loop.
C7_ConsumerSurvivesFailures ==
    (running /\ consumer_pc \notin {"none", "start"}) =>
        \/ consumer_pc = "chat" /\ inflight # {}
        \/ consumer_pc = "get" /\ ~processing_lock

\* the send of the error notice itself raised, the exception left the
\* handler, and the consumer is back at queue.get() with the next message
\* in the queue
C7_Witness ==
    /\ running /\ consumer_pc = "get" /\ ~processing_lock
    /\ queue # <<>>
    /\ last # <<>>
    /\ EventsOf("done", last[1].id) # <<>>
    /\ ~EventsOf("done", last[1].id)[1].ok

\* ---- the persistent-connection backend --------------------------------

\* C4: a response frame carrying request identifier X completes only the
\* chat call that registered X and delivers its payload to that call: a
\* call's completion signal is only ever set together with the frame that
\* carries the call's own identifier, and a call that returns success
\* returns that frame and its payload.
C4_ResponseReachesItsCaller ==
    \A t \in ChatTasks :
        /\ event[t].is_set => event[t].data = Frame(task[t].rid)
        /\ task[t].result.success =>
              /\ task[t].result.raw_response.request_id = task[t].rid
              /\ task[t].result.response = <<"reply", task[t].rid>>

\* two requests were outstanding on one connection, and the call that
\* registered second has returned its response while the first still waits
C4_Witness ==
    \E t, u \in ChatTasks :
        /\ task[u].pc = "c_wait" /\ ~event[u].is_set
        /\ task[u].rid # 0 /\ task[u].rid < task[t].rid
        /\ task[t].result.success
        /\ <<websocket, task[u].rid>> \in unanswered

\* C5: every call of chat returns, it never waits indefinitely.  A call
\* that waits for self._lock while it holds self._lock itself waits for
\* ever: the lock is not reentrant and only its holder releases it.  The
\* claim therefore requires that no chat call is ever in that position.
C5_ChatNeverWaitsIndefinitely ==
    \A t \in ChatTasks :
        ~(/\ lock_holder = t
          /\ \E i \in 1..Len(lock_waiters) : lock_waiters[i] = t)

\* ---- the Relay Engine: shutdown and ingestion ---------------------------

\* C11: once shutdown has cleared the running flag no message is taken
\* from the queue: no step of the engine shortens the queue while the flag
\* is clear.
C11_NoDequeueAfterShutdown ==
    [][~running => Len(queue') >= Len(queue)]_vars

Ingested == rx_msg \o scheduled \o queue

\* C13: the packet-arrival callback adds nothing to the queue when the
\* engine is not running (a packet that arrives then leaves no trace but
\* the count), when the sender is this node (no message from this node is
\* ever on its way to the queue), or when the event loop is not running
\* (from then on nothing is handed over or enqueued, now or later).
C13_CallbackDrops ==
    /\ [][(rx_count' # rx_count /\ ~running) =>
             UNCHANGED <<rx_pc, rx_msg, scheduled, queue>>]_vars
    /\ [](\A i \in 1..Len(Ingested) : Ingested[i].m.from_id # NodeId)
    /\ [][~loop_running => UNCHANGED <<scheduled, queue>>]_vars

\* the callback holds a message it accepted while the engine was running,
\* and the event loop has stopped since
C13_Witness ==
    /\ rx_pc = "schedule" /\ rx_msg # <<>>
    /\ ~loop_running /\ ~running

\* C14: analyze_packet returns a message only for a packet that has a
\* decoded payload, is a text packet and has a text that is not empty once
\* trimmed; every other packet classifies to None and is not handed to the
\* queue.
C14_OnlyTextIsClassified ==
    c_pc = "done" =>
        LET textual == /\ c_packet.decoded
                       /\ c_packet.portnum = "TEXT_MESSAGE_APP"
                       /\ c_packet.text # {}
        IN  /\ c_result # <<>> <=> textual
            /\ c_result # <<>> => c_result[1].text = c_packet.text
            /\ c_scheduled => textual

\* a position packet with latitude = None was classified to None and not
\* handed over
C14_Witness ==
    /\ c_pc = "done"
    /\ c_packet.decoded /\ c_packet.portnum = "POSITION_APP"
    /\ c_packet.position # <<>> /\ c_packet.position[1].latitude = None
    /\ c_result = <<>> /\ ~c_scheduled

\* C16: mention detection ignores letter case for every token it matches.
\* When the text of a classified packet is detected as a mention, every
\* text that differs from it in letter case only is detected as well,
\* whatever the destination of the packet.
C16_MentionIgnoresCase ==
    (c_pc = "done" /\ c_result # <<>> /\ c_result[1].is_mention) =>
        \A other \in ClassifyTexts :
            lower(other) = lower(c_packet.text)
                => _contains_mention(other, c_result[1].long_name)

\* C17: is_broadcast depends on the destination and this node's id only.
\* A packet to one of the broadcast addresses, given as the numbers the
\* driver delivers, or to any node other than this one is broadcast; a
\* packet to this node is direct.
C17_BroadcastIffNotToSelf ==
    (c_pc = "done" /\ c_result # <<>>) =>
        /\ c_result[1].is_broadcast = _is_broadcast_message(c_packet.to, NodeId)
        /\ c_packet.to \in {BROADCAST_NUM, NEARBY_NUM} => c_result[1].is_broadcast
        /\ c_packet.to # NodeId => c_result[1].is_broadcast
        /\ c_packet.to = NodeId => ~c_result[1].is_broadcast

\* a text packet to the numeric broadcast address was classified broadcast
C17_Witness ==
    /\ c_pc = "done" /\ c_result # <<>>
    /\ c_packet.to = BROADCAST_NUM
    /\ c_result[1].is_broadcast

\* C18: the queue is bounded.  A capacity limits the number of messages
\* waiting in the queue, so the queue never holds every packet of a run in
\* which more packets arrive than the capacity: at least one of MaxPackets
\* arrivals is not waiting in it.
C18_QueueWithinCapacity == Len(queue) < MaxPackets

\* C20: when an exception is raised while a message is processed (chat
\* raises, its result is malformed, or a sendText of a reply chunk raises
\* part-way through the reply), the engine makes exactly one send of an
\* error text for the message: the generic notice, as the last send for the
\* message, on the channel the request arrived on.
C20_OneNoticeOnException ==
    last # <<>> =>
        LET id == last[1].id
            sends == EventsOf("send", id)
            errors == SelectSeq(sends, LAMBDA e : e.kind \in {"failed", "exception"})
            excepted ==
                /\ ResultOf(id) # <<>>
                /\ \/ ResultOf(id)[1].kind \in {"raise", "malformed"}
                   \/ /\ ResultOf(id)[1].kind = "success"
                      /\ \E i \in 1..Len(sends) : sends[i].kind = "reply" /\ ~sends[i].ok
        IN  (Finished(id) /\ excepted) =>
                /\ Len(errors) = 1
                /\ errors[1].kind = "exception"
                /\ errors[1].dest = ChannelOf(last[1].m)
                /\ sends[Len(sends)] = errors[1]
                /\ Len(EventsOf("chat", id)) = 1

\* the reply to a broadcast message went out in chunks, the sendText of a
\* later chunk raised after an earlier one had been sent, and the notice
\* was broadcast
C20_Witness ==
    /\ last # <<>>
    /\ last[1].m.is_broadcast
    /\ Finished(last[1].id)
    /\ LET sends == EventsOf("send", last[1].id)
       IN  /\ Len(sends) = 3
           /\ sends[1].kind = "reply" /\ sends[1].ok
           /\ sends[2].kind = "reply" /\ ~sends[2].ok
           /\ sends[3].kind = "exception" /\ sends[3].ok /\ sends[3].dest = None

\* the positions in `events` of the sends for message id
SendPositions(id) ==
    {i \in 1..Len(events) : events[i].ev = "send" /\ events[i].msg = id}

\* C21: on a successful exchange whose sends all return, the sends for the
\* message are the chunks of the reply in the order the chunker produced
\* them, nothing else is logged between them, and each goes to no
\* destination (broadcast) for a broadcast request and to the sender's id
\* for a direct one.
C21_ChunksInOrderOnChannel ==
    last # <<>> =>
        LET id == last[1].id
            m == last[1].m
            sends == EventsOf("send", id)
        IN  (/\ Finished(id) /\ ResultOf(id) # <<>>
             /\ ResultOf(id)[1].kind = "success"
             /\ \A i \in 1..Len(sends) : sends[i].ok) =>
                /\ [i \in 1..Len(sends) |-> sends[i].body]
                      = reply_texts(ResultOf(id)[1].body, m.is_broadcast)
                /\ \A i \in 1..Len(sends) :
                      /\ sends[i].kind = "reply"
                      /\ sends[i].dest = (IF m.is_broadcast THEN None ELSE m.from_id.v)
                /\ \A i, j \in SendPositions(id) :
                      \A k \in i..j : k \in SendPositions(id)

\* the reply to a direct message went out in two chunks, both to the sender
C21_Witness ==
    /\ last # <<>> /\ ~last[1].m.is_broadcast
    /\ Finished(last[1].id)
    /\ LET sends == EventsOf("send", last[1].id)
       IN  /\ Len(sends) >= 2
           /\ \A i \in 1..Len(sends) :
                 sends[i].kind = "reply" /\ sends[i].ok /\ sends[i].dest = PeerId.v
           /\ sends[1].body # sends[2].body

\* C23: shutdown does not close the radio interface or the backend while
\* an exchange is in flight.  No exchange is in flight once the interface
\* has been closed, and no sendText for a message is logged after the
\* shutdown.
C23_CloseWaitsForInFlight ==
    /\ interface_closed > 0 => inflight = {}
    /\ \A i, j \in 1..Len(events) :
          (events[i].ev = "shutdown" /\ events[j].ev = "send") => j < i

\* C27: every text the engine passes to sendText is at most
\* max_response_length bytes long in UTF-8.  Stated for the texts of a
\* reply, chunked or not, with the broadcast prefix where it applies.
C27_SentTextsWithinLimit ==
    \A i \in 1..Len(events) :
        (events[i].ev = "send" /\ events[i].kind = "reply")
            => byte_len(events[i].body) <= max_response_length

\* message id is waiting in the queue
Queued(id) == \E i \in 1..Len(queue) : queue[i].id = id

\* C30: each message placed on the queue is handed to processing at most
\* once, and exactly once if the engine stays running and every backend
\* call returns.  The messages are handed over in increasing id and a
\* message handed over has left the queue, so none is handed over twice;
\* every message in the queue is eventually the one handed over, unless
\* the engine is shut down first.
C30_HandedOverOnce ==
    /\ [](\A i \in 1..Len(queue) :
            /\ last # <<>> => queue[i].id > last[1].id
            /\ \A j \in 1..Len(queue) : i < j => queue[i].id < queue[j].id)
    /\ [][last' # last => last' = <<Head(queue)>> /\ queue' = Tail(queue)]_vars
    /\ \A id \in 1..MaxPackets :
          Queued(id) ~> ((last # <<>> /\ last[1].id = id /\ ~Queued(id)) \/ ~running)

\* the second of two queued messages has been handed over while the engine
\* is running, after the exchange of the first had ended
C30_Witness ==
    /\ running /\ queue = <<>>
    /\ last # <<>> /\ last[1].id = 2
    /\ order = <<1, 2>>

\* C36: the packet-arrival callback never raises into the thread of the
\* radio driver.  For every packet, also one whose decoded payload or text
\* is present but None, the callback returns normally.
C36_CallbackNeverRaises == c_pc # "raised"

\* ---- the Relay Engine: lifecycle -----------------------------------------

\* the lifecycle state of the engine and its place in the order
\* Idle -> Running -> ShuttingDown -> Stopped
Lifecycle ==
    IF shutdown_pc = "done" THEN "Stopped"
    ELSE IF shutdown_pc = "closing" THEN "ShuttingDown"
    ELSE IF running THEN "Running"
    ELSE "Idle"

LifecycleRank ==
    CASE Lifecycle = "Idle" -> 0
      [] Lifecycle = "Running" -> 1
      [] Lifecycle = "ShuttingDown" -> 2
      [] Lifecycle = "Stopped" -> 3

\* C35: the lifecycle of the engine is Idle -> Running -> ShuttingDown ->
\* Stopped and only moves forward, one state at a time.  The flag running is
\* set only by the start of run(); once a shutdown request has been accepted
\* the flag is never set again; a shutdown accepted while Running leads to
\* Stopped, and Stopped is never left.
C35_LifecycleMovesForward ==
    /\ [](shutdown_pc # "idle" => ~running)
    /\ [][/\ LifecycleRank' \in {LifecycleRank, LifecycleRank + 1}
          /\ (running' /\ ~running) => (~started /\ started' /\ shutdown_calls' = shutdown_calls)
          /\ (Lifecycle = "Running" /\ Lifecycle' = "ShuttingDown")
                => shutdown_calls' = shutdown_calls + 1]_vars
    /\ (Lifecycle = "ShuttingDown") ~> (Lifecycle = "Stopped")

\* the engine ran, was shut down, and is Stopped
C35_Witness ==
    /\ Lifecycle = "Stopped"
    /\ started /\ ~running
    /\ interface_closed = 1 /\ client_closed = 1

\* C37: shutdown() is idempotent.  However many times it is called, one
\* call after the other or while another call is still closing the backend,
\* the radio interface and the backend are each closed at most once, and a
\* call made while the engine is not running changes nothing.
C37_ShutdownClosesOnce ==
    /\ [](interface_closed <= 1 /\ client_closed <= 1)
    /\ [][(shutdown_calls' # shutdown_calls /\ ~running) =>
             UNCHANGED <<running, started, loop_running, interface_closed,
                         client_closed, shutdown_pc, rx_pc, rx_msg, rx_count,
                         scheduled, queue, consumer_pc, processing_lock, inflight,
                         last, events, order>>]_vars

\* shutdown() has been called MaxShutdownCalls times on an engine that was
\* started: the interface and the backend have been closed once
C37_Witness ==
    /\ shutdown_calls = MaxShutdownCalls
    /\ started /\ shutdown_pc = "done"
    /\ interface_closed = 1 /\ client_closed = 1

\* ---- the conversation history -------------------------------------------

\* C19: after any sequence of chat calls the history of a backend has at
\* most max_history entries (20; 10 for Gemini) and is exactly the most
\* recent entries of the successful exchanges, in their order: the oldest
\* entries are the ones that were dropped.  A call that fails leaves the
\* history as it was.
C19_HistoryIsMostRecentExchanges ==
    /\ Len(conversation_history) <= max_history(h_backend)
    /\ conversation_history = slice_last(h_exchanges, max_history(h_backend))
    /\ \A i \in 1..Len(conversation_history) :
          /\ conversation_history[i].role = (IF i % 2 = 1 THEN "user" ELSE "assistant")
          /\ i + 2 <= Len(conversation_history) /\ i % 2 = 1
                => conversation_history[i + 2].content = conversation_history[i].content + 1

\* the Ollama client has recorded more than 20 entries and holds the last 20
C19_Witness ==
    /\ h_backend = "ollama" /\ h_pc = "idle"
    /\ Len(h_exchanges) > 20
    /\ Len(conversation_history) = 20
    /\ conversation_history[1] = h_exchanges[Len(h_exchanges) - 19]

\* C31: a chat call that does not return success (an empty message, a
\* status other than 200, a network error, any exception) leaves
\* conversation_history as it was.  The history changes only in the step in
\* which a call returns success, and then the entries of that exchange, the
\* user entry followed by the assistant entry, are appended to it (and the
\* list cut to its last max_history entries).
C31_OnlySuccessChangesHistory ==
    [][/\ h_result' # "success" => conversation_history' = conversation_history
       /\ conversation_history' # conversation_history =>
             /\ h_pc = "post" /\ h_pc' = "idle" /\ h_result' = "success"
             /\ \E r \in {Reply(h_message), Apology} :
                   conversation_history' =
                       slice_last(conversation_history \o exchange(h_message, r),
                                  max_history(h_backend))]_vars

\* a call has failed on a backend that holds recorded exchanges
C31_Witness ==
    /\ h_pc = "idle"
    /\ h_result \in {"empty", "api_error", "network_error", "exception"}
    /\ Len(conversation_history) >= 2
    /\ conversation_history = slice_last(h_exchanges, max_history(h_backend))

\* C33: when a generic frame is dispatched (one that reaches
\* _call_handlers), every registered handler is called once, in the order of
\* registration, whether or not earlier handlers raise; the exception of a
\* handler is caught and logged, leaves neither _call_handlers nor the
\* receive loop, and does not mark the connection lost.
C33_HandlersAllCalledInOrder ==
    LET request_id == IF d_message.form = "json" /\ d_message.value.type = "dict"
                      THEN d_message.value.request_id ELSE None
        generic == ~truthy(request_id)
                      \/ (hashable(request_id) /\ request_id \notin d_pending)
        payload == IF d_message.form = "json" THEN d_message.value ELSE d_message
    IN  d_pc = "done" /\ generic =>
            /\ d_out.order = [i \in 1..Len(d_handlers) |-> i]
            /\ d_out.handled = [i \in 1..Len(d_handlers) |-> payload]
            /\ d_out.logged =
                   SelectSeq(d_out.order, LAMBDA i : d_handlers[i] = "raises")
            /\ d_out.raised = None
            /\ d_out.is_connected

\* a generic frame went to two handlers of which the first raised
C33_Witness ==
    /\ d_pc = "done"
    /\ d_message = [form |-> "text", value |-> "plain"]
    /\ d_handlers = <<"raises", "returns">>
    /\ d_out.order = <<1, 2>>
    /\ d_out.logged = <<1>>

\* C34: init() is idempotent: however many calls of init() are made on one
\* client, one after the other or at the same time, the client has at most
\* one open connection, and no call is inside websockets.connect while the
\* client holds an open connection.
C34_InitOpensOneConnection ==
    /\ Cardinality(conn_open) <= 1
    /\ \A t \in Tasks :
          task[t].pc = "i_connect" => ~(is_connected /\ websocket \in conn_open)

\* ---- the persistent-connection backend: backoff --------------------------

\* C32: in one reconnection sequence (one call of _connect_with_retry) the
\* delay slept after the k-th failed attempt, k counted from 1 at the start
\* of that sequence, is min(reconnect_delay * 2^(k-1), max_reconnect_delay);
\* the delays of the sequence never decrease and never exceed
\* max_reconnect_delay.
C32_DelayIsBackoffOfAttempt ==
    \A t \in Tasks :
        task[t].pc = "w_sleep" =>
            /\ task[t].delay =
                   min(reconnect_delay * (2 ^ (task[t].attempt - 1)), max_reconnect_delay)
            /\ task[t].slept <= task[t].delay
            /\ task[t].delay <= max_reconnect_delay

\* C38: in every reachable state the conversation history of a backend has
\* even length and is made of whole exchanges: the entries at the odd
\* places are user entries, each followed by the assistant entry of the
\* same exchange.  Eviction at the cap never leaves an assistant entry
\* first and never separates the two entries of an exchange.
C38_HistoryIsWholeExchanges ==
    /\ Len(conversation_history) % 2 = 0
    /\ \A k \in 1..(Len(conversation_history) \div 2) :
          LET user == conversation_history[2 * k - 1]
              assistant == conversation_history[2 * k]
          IN  /\ user.role = "user"
              /\ assistant.role = "assistant"
              /\ \/ <<user, assistant>> = exchange(user.content, Reply(user.content))
                 \/ <<user, assistant>> = exchange(user.content, Apology)

\* the Gemini client has evicted entries at its cap of 10
C38_Witness ==
    /\ h_backend = "gemini" /\ h_pc = "idle"
    /\ Len(h_exchanges) > Len(conversation_history)
    /\ Len(conversation_history) = 10
    /\ conversation_history[1].role = "user"

\* a receive loop of the client exists: created and not yet returned
ReceiveLoops == {t \in RecvTasks : task[t].pc \notin {"unborn", "done"}}

\* a call of start() is under way, which creates a receive loop if it
\* finds the client connected
Starting ==
    \E t \in Tasks : \E i \in 1..Len(task[t].stack) : task[t].stack[i] = "s1"

\* C22: with an established connection, however it was obtained, a chat
\* request the peer answers in time returns success with the answer.  The
\* answer can reach the caller only through a receive loop: whenever a chat
\* call waits for its response while the client is running and connected
\* and the server holds the request on the open connection of the client,
\* a receive loop exists to read the answer, or a start() under way is
\* about to create one.
C22_AnswerableChatHasReceiveLoop ==
    \A t \in ChatTasks :
        (/\ task[t].pc = "c_wait"
         /\ is_running /\ is_connected
         /\ websocket \in conn_open
         /\ <<websocket, task[t].rid>> \in unanswered)
            => (ReceiveLoops # {} \/ Starting)

\* C24: send_message on a client that has not been started, or that was
\* closed, starts and connects the client and returns a result; the call
\* always terminates.  A call that ends releases the lock it took, so no
\* task ever waits in the queue of a lock that it holds itself: such a
\* task can never be woken.
C24_SendMessageNeverWaitsForItself ==
    \A t \in Tasks :
        lock_holder = t => \A i \in 1..Len(lock_waiters) : lock_waiters[i] # t

\* C25: at most one background receive loop of the client is active at any
\* time, whatever the order of the start, close, chat and send_message
\* calls.
C25_OneReceiveLoop ==
    Cardinality({t \in RecvTasks : task[t].pc \notin {"unborn", "created", "done"}}) <= 1

\* ---- the persistent-connection backend: one frame -----------------------

\* C28: each frame is dispatched exactly one way.  A frame that decodes to
\* a record whose request_id is pending fills that request's slot and sets
\* its event and reaches no handler; every other frame is given once to
\* every registered handler and touches no pending request.
C28_FrameDispatchedOneWay ==
    d_pc = "done" =>
        LET matched == /\ d_message.form = "json"
                       /\ d_message.value.type = "dict"
                       /\ d_message.value.request_id \in d_pending
            payload == IF d_message.form = "json" THEN d_message.value ELSE d_message
        IN  /\ d_out.raised = None
            /\ matched => /\ d_out.set = {d_message.value.request_id}
                          /\ d_out.slot = {<<d_message.value.request_id, d_message.value>>}
                          /\ d_out.handled = <<>>
            /\ ~matched => /\ d_out.set = {} /\ d_out.slot = {}
                           /\ d_out.handled = [i \in 1..Len(d_handlers) |-> payload]

\* C29: the pending-request map holds one entry per request id, each for
\* a chat call that is in progress with that id and a different call for
\* each id; once a chat call has returned, with whatever outcome, the map
\* has no entry for its id; with no chat call in progress the map is empty.
C29_PendingOnlyWhileChatInProgress ==
    /\ \A r \in DOMAIN pending_responses :
          /\ pending_responses[r] \in ChatTasks
          /\ task[pending_responses[r]].rid = r
          /\ task[pending_responses[r]].pc \notin {"idle", "done"}
    /\ \A r1, r2 \in DOMAIN pending_responses :
          pending_responses[r1] = pending_responses[r2] => r1 = r2
    /\ \A t \in ChatTasks :
          task[t].pc = "done" => task[t].rid \notin DOMAIN pending_responses
    /\ (\A t \in ChatTasks : task[t].pc \in {"idle", "done"})
          => DOMAIN pending_responses = {}

\* one chat call has returned with a timeout and the other with a send
\* failure, each after registering its request, and the map is empty
C29_Witness ==
    /\ DOMAIN pending_responses = {}
    /\ \E t, u \in ChatTasks :
          /\ task[t].pc = "done" /\ task[t].rid # 0
          /\ task[t].result.error = "timeout"
          /\ task[u].pc = "done" /\ task[u].rid # 0
          /\ task[u].result.error = "closed"

\* ---- the persistent-connection backend: reconnection --------------------

\* C15: reconnection is bounded.  Once the attempts counted since the last
\* successful connect exceed the configured maximum the bound is exhausted,
\* and the background receive loop starts no further connect.
C15_ReceiveLoopStopsAtBound ==
    [][\A t \in RecvTasks :
          (task[t].pc # "i_connect" /\ task'[t].pc = "i_connect")
              => reconnect_attempts <= max_reconnect_attempts]_vars


=============================================================================
